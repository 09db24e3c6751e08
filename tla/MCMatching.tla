----------------------------- MODULE MCMatching -----------------------------
(* Model checking Matching on words of four bits, two code nodes to an entry. *)
EXTENDS Matching

MCGraphs == {"sig1", "sig2", "code", "fork"}
MCClocks == {1, 6, 12, 20, Forever}

\* Signatures
File(identifier, names, statements) ==
  [identifier |-> identifier,
   variants |-> [k \in DOMAIN names |-> [name |-> names[k], statements |-> statements[k]]]]
Text(file) == [tokens |-> WrittenFile(file), tree |-> [ok |-> TRUE, variants |-> file.variants],
               redefines |-> FALSE]
One(statements) == Text(File("", <<"">>, <<statements>>))
Malformed(tokens, redefines) == [tokens |-> tokens, tree |-> [ok |-> FALSE], redefines |-> redefines]

a == Label("a")
Leaves == {Number(2), Number(-1), HexNumber(5), a, AnyNode, Same("o", <<>>)}
Pairs == {Function(f, <<x, y>>) : f \in {"XOR", "AND", "MULT", "OR", "ROTATE", "STORE"}, x \in Leaves, y \in {a, Number(3)}}
         \cup {Sum(<<x, y>>) : x \in Leaves, y \in Leaves}
         \cup {Shift(d, x, Number(1)) : d \in {"<<", ">>"}, x \in Leaves}
Nested == {Shift(">>", p, a) : p \in {Sum(<<a, AnyNode>>), Shift("<<", AnyNode, Number(1))}}
          \cup {Function("LOAD", <<p>>) : p \in {Sum(<<a, Number(4)>>), Same("o", <<a>>)}}
          \cup {Sum(<<Shift("<<", a, Number(1)), Function("MULT", <<a, Number(2), AnyNode>>), a>>)}
          \cup {AnyNodeOf(<<AnyNodeOf(<<a>>), Same("o", <<Number(1), a>>)>>)}
          \cup {Function("XOR", <<a, AnyNode, Function("AND", <<a, Number(6), AnyNode>>), a>>)}
ParserTexts ==
  {One(<<Define("a", AnyNode), Define("b", e), Say(Function("XOR", <<Label("b"), a>>))>>)
     : e \in Pairs \cup Nested}
  \cup {Text(File("Lai", <<"A", "B">>,
              << <<Define("a", Same("o", <<>>)), Say(Function("LOAD", <<a>>))>>,
                 <<Define("a", AnyNode), Say(Function("STORE", <<Number(1), a>>)), Say(Function("LOAD", <<a>>)),
                   Say(Same("p", <<Same("o", <<a>>)>>))>> >>))}
  \cup {Malformed(<<Name("a"), Sym(":"), Name("OPAQUE"), Sym(";"), Name("a"), Sym(":"), Decimal(1)>>, TRUE),
        Malformed(<<Name("foo"), Sym("("), Decimal(5), Sym(")")>>, FALSE),
        Malformed(<<Name("OPAQUE"), Sym("<"), Sym(">")>>, FALSE),
        Malformed(<<Name("OPAQUE"), Sym("<"), Name("a"), Sym("("), Decimal(1)>>, FALSE),
        Malformed(<<Name("LOAD"), Sym("("), Decimal(1), Sym(","), Decimal(2), Sym(")")>>, FALSE),
        Malformed(<<Sym("("), Decimal(1), Sym(";")>>, FALSE),
        Malformed(<<Decimal(1), Sym("<<")>>, FALSE),
        Malformed(<<>>, FALSE)}

ParserCases == {[text |-> t, functions |-> {}] : t \in ParserTexts}

\* Functions: a sequence of expressions and the one that is returned
R(n) == Register(n)
NewFunction(terms, returned) == [terms |-> terms, returned |-> returned]
Load(address) == Node("LOAD", <<address>>)
Store(data, address) == Node("STORE", <<data, address>>)
Call(name) == [op |-> "CALL", v |-> name, in |-> <<>>]
Stack(offset) == NewAdd(R(SP), Const(offset))

Rounds == LET x1 == NewXor(R(0), R(1))
              x2 == NewXor(x1, R(2))
          IN NewFunction(<<x1, x2, NewXor(x2, NewShift(x1, Const(1)))>>, NewXor(x2, NewShift(x1, Const(1))))
Spills == NewFunction(<<Store(R(0), Stack(4)), Store(R(1), R(2)), Store(R(0), R(2)), NewXor(R(0), R(1))>>,
                      NewXor(R(0), R(1)))
Calls == NewFunction(<<Call("f"), Store(Call("f"), R(1)), NewShift(R(0), R(1)), R(0)>>, R(0))
Loads == LET same == NewXor(Load(R(0)), R(0))
         IN NewFunction(<<Store(NewXor(Load(R(0)), R(1)), R(2)), same>>, same)
Load1 == NewFunction(<<NewXor(Load(R(0)), R(1))>>, NewXor(Load(R(0)), R(1)))
Deep == NewFunction(<<NewShift(NewShift(NewXor(R(0), R(1)), R(1)), R(1))>>, R(0))

Two == Function("XOR", <<AnyNode, AnyNode>>)
Chain == <<Define("a", Two), Say(Function("XOR", <<a, AnyNode>>))>>
Refs == <<Say(Function("XOR", <<Same("r", <<>>), Same("r", <<>>)>>))>>
Ordered == <<Define("a", AnyNode), Say(Shift("<<", a, AnyNode))>>
Stores == <<Say(Function("STORE", <<AnyNode, AnyNode>>))>>
Through == <<Say(Function("XOR", <<Function("LOAD", <<Same("r", <<>>)>>), Same("r", <<>>)>>))>>
Either == Text(File("", <<"A", "B">>, <<Ordered, Refs>>))
MatchTexts == {One(Chain), One(Refs), One(Ordered), One(Stores), One(Through), Either}

MatchCases == {[text |-> t, functions |-> {Rounds, Spills, Calls, Loads, Load1, Deep}] : t \in MatchTexts}

\* Blocks, the words at the offsets: each is mixed with what the one before left, the
\* first with R2; of the mixed word a round is left.
Word(p, q, offset) == Load(Node("ADD", IF offset = 0 THEN <<p, q>> ELSE <<p, q, Const(offset)>>))
Round(r, x) == CASE r = "shift" -> Node("SHIFT", <<x, Const(1)>>)
                 [] r = "double" -> Node("SHIFT", <<x, Const(2)>>)
                 [] r = "and" -> Node("AND", <<x, R(3)>>)
                 [] r = "square" -> Node("MULT", <<x, Node("OR", <<x, R(3)>>)>>)
Blocks(offsets, rounds) ==
  LET left(f, x) == NewFunction(Append(f.terms, x), x)
      mixed(f, i) == Node("XOR", <<Word(R(0), R(1), offsets[i]), f.returned>>)
      block(f, i) == left(f, Round(rounds[i], mixed(f, i)))
  IN FoldLeft(block, NewFunction(<<>>, R(2)), [i \in DOMAIN offsets |-> i])
Also(f, term) == [f EXCEPT !.terms = Append(@, term)]
Same3(r) == <<r, r, r>>

Plain == Blocks(<<0, 2, 4>>, Same3("shift"))
Chains ==
  {Plain, Blocks(<<1, 7, 13>>, Same3("square")), Blocks(<<0, 3, 6>>, <<"shift", "double", "and">>),
   Blocks(<<0, 2, 4>>, <<"and", "shift", "and">>), Blocks(<<4, 2, 0>>, Same3("and")),
   Blocks(<<0, 6, 12, 2>>, Same3("shift") \o <<"and">>),
   Blocks(<<0, 2, 3, 4, 6>>, <<"shift", "shift", "and", "shift", "shift">>)}
  \cup {Also(Plain, Store(Plain.terms[k].in[1], R(3))) : k \in 1 .. 3}
  \cup {Also(Plain, t) : t \in {Node("XOR", <<Word(R(0), R(1), o), Word(R(1), R(0), 2)>>) : o \in {0, 4}}}
BlockCases == {[text |-> Malformed(<<>>, FALSE), functions |-> Chains]}

\* TRANSIENT: a statement that a later one uses, and one that none uses
LabelUsed == One(<<Transient("a", AnyNode), Define("b", Shift("<<", a, Number(1))), Say(Function("AND", <<Label("b"), a>>))>>)
LabelUnused == One(<<Transient("key", AnyNode), Define("a", AnyNode), Say(Function("XOR", <<a, AnyNode>>))>>)
MCTransientCases == {[text |-> t, functions |-> {}] : t \in {LabelUsed, LabelUnused}}

MCCases == ParserCases \cup MatchCases \cup BlockCases
==============================================================================
