--------------------------- MODULE SignatureText ---------------------------
(***************************************************************************)
(* Reference for SignatureParser: the grammar of signature files as trees, *)
(* how a tree is written, and the nodes it stands for.                     *)
(*                                                                         *)
(* A file is an identifier and a sequence of variants, a variant a name    *)
(* and a sequence of statements, a statement an expression with labels     *)
(* (none or one).                                                          *)
(***************************************************************************)
EXTENDS SignatureParser

Tree(kind, t, value, args) == [kind |-> kind, t |-> t, value |-> value, args |-> args]
Number(value) == Tree("number", "", value, <<>>)
HexNumber(value) == Tree("hex", "", value, <<>>)
Label(t) == Tree("label", t, 0, <<>>)
Function(t, args) == Tree("function", t, 0, args)
AnyNode == Tree("opaque", "", 0, <<>>)
AnyNodeOf(args) == Tree("opaque", "", 0, args)
Same(t, args) == Tree("opaque", t, 0, args)   \* with the reference t
Sum(args) == Tree("sum", "+", 0, args)
Shift(direction, x, amount) == Tree("shift", direction, 0, <<x, amount>>)
Statement(labels, transient, e) == [labels |-> labels, transient |-> transient, e |-> e]
Define(label, e) == Statement({label}, FALSE, e)
Transient(label, e) == Statement({label}, TRUE, e)
Say(e) == Statement({}, FALSE, e)

------------------------------------------------------------------------------
(* How a tree is written. *)

Separated(separator, lists) ==
  FoldLeft(LAMBDA all, list : all \o <<Sym(separator)>> \o list, lists[1], Tail(lists))

RECURSIVE Written(_)
Written(e) ==
  LET list == IF e.args = <<>> THEN <<>>
              ELSE <<Sym("(")>> \o Separated(",", [i \in DOMAIN e.args |-> Written(e.args[i])])
                   \o <<Sym(")")>>
      operand(x) == IF x.kind \in {"sum", "shift"}
                    THEN <<Sym("(")>> \o Written(x) \o <<Sym(")")>> ELSE Written(x)
      operands == [i \in DOMAIN e.args |-> operand(e.args[i])]
      minus == IF e.value < 0 THEN <<Sym("-")>> ELSE <<>>
      magnitude == IF e.value < 0 THEN 0 - e.value ELSE e.value
  IN CASE e.kind = "number" -> Append(minus, Decimal(magnitude))
       [] e.kind = "hex" -> Append(minus, Hex(magnitude))
       [] e.kind = "label" -> <<Name(e.t)>>
       [] e.kind = "function" -> <<Name(e.t)>> \o list
       [] e.kind = "opaque" -> (IF e.t = "" THEN <<Name("OPAQUE")>>
                                ELSE <<Name("OPAQUE"), Sym("<"), Name(e.t), Sym(">")>>) \o list
       [] e.kind \in {"sum", "shift"} -> Separated(e.t, operands)

WrittenStatement(statement) ==
  (IF statement.transient THEN <<Name("TRANSIENT")>> ELSE <<>>)
  \o (IF statement.labels = {} THEN <<>>
      ELSE <<Name(CHOOSE l \in statement.labels : TRUE), Sym(":")>>)
  \o Written(statement.e)

\* Semicolons between statements, and one at the end of a variant
WrittenVariant(variant) ==
  (IF variant.name = "" THEN <<>> ELSE <<Keyword("VARIANT", variant.name)>>)
  \o FoldLeft(LAMBDA all, s : all \o WrittenStatement(s) \o <<Sym(";")>>, <<>>, variant.statements)

WrittenFile(file) ==
  (IF file.identifier = "" THEN <<>> ELSE <<Keyword("IDENTIFIER", file.identifier)>>)
  \o FoldLeft(LAMBDA all, v : all \o WrittenVariant(v), <<>>, file.variants)

------------------------------------------------------------------------------
(* The nodes a tree stands for, with every opaque node a new one.  env has *)
(* the node n of the last expression, the nodes of labels, the numbers of  *)
(* references, the reference of each opaque node and the memory.           *)

EmptyEnv == [n |-> NULL, labels |-> None, refs |-> None, ref |-> <<>>, mem |-> None, kept |-> <<>>]

FreshOpaque(env, t, in) ==
  LET refs == IF t \in DOMAIN env.refs \cup {""} THEN env.refs
              ELSE (t :> Cardinality(DOMAIN env.refs)) @@ env.refs
  IN [env EXCEPT !.n = Opaque(Len(env.ref), in), !.refs = refs,
                 !.ref = Append(@, IF t = "" THEN -1 ELSE refs[t])]

\* The value of a tree whose arguments have the values in
Made(env, e, in) ==
  LET is(n) == [env EXCEPT !.n = n]
  IN CASE e.kind \in {"number", "hex"} -> is(Const(Wrap(e.value)))
       [] e.kind = "label" -> is(env.labels[e.t])
       [] e.kind = "opaque" -> FreshOpaque(env, e.t, in)
       [] e.kind = "sum" -> is(FoldLeft(NewAdd, in[1], Tail(in)))
       [] e.kind = "shift" -> is(NewShift(in[1], IF e.t = "<<" THEN in[2] ELSE Negative(in[2])))
       [] e.t = "STORE" -> [is(Node("STORE", in)) EXCEPT !.mem = NewStore(@, in[1], in[2])]
       [] e.t = "LOAD" -> is(NewLoad(None, env.mem, in[1]))
       [] e.t = "ROTATE" -> is(NewRotate(in[1], in[2]))
       [] e.t \in {"XOR", "OR", "AND", "MULT"}
            -> is(FoldLeft(LAMBDA x, y : CASE e.t = "XOR" -> NewXor(x, y) [] e.t = "OR" -> NewOr(x, y)
                                           [] e.t = "AND" -> NewAnd(x, y) [] e.t = "MULT" -> NewMult(x, y),
                           in[1], Tail(in)))

RECURSIVE Meaning(_, _)
Meaning(env, e) ==
  LET numbered == IF e.kind = "opaque" /\ e.t # "" THEN FreshOpaque(env, e.t, <<>>).refs ELSE env.refs
      append(in, r) == [env |-> r, in |-> Append(in, r.n)]
      made(all) == Made(all.env, e, all.in)
  IN made(FoldLeft(LAMBDA acc, x : append(acc.in, Meaning(acc.env, x)),
                   [env |-> [env EXCEPT !.refs = numbered], in |-> <<>>], e.args))

\* A statement with TRANSIENT only defines its label.
MeaningOfVariant(variant) ==
  LET defined(r, s) == [r EXCEPT !.labels = [l \in s.labels |-> r.n] @@ @,
                                 !.kept = IF s.transient THEN @ ELSE Append(@, r.n)]
  IN FoldLeft(LAMBDA env, s : defined(Meaning(env, s.e), s), EmptyEnv, variant.statements)

------------------------------------------------------------------------------
(* Two lists of nodes are the same but for the numbers of opaque nodes.    *)

RECURSIVE OpaqueIds(_)
OpaqueIds(t) == (IF t.op = "OPAQUE" THEN <<t.v>> ELSE <<>>)
                \o FoldLeft(LAMBDA ids, x : ids \o OpaqueIds(x), <<>>, t.in)

RECURSIVE Renumbered(_, _)
Renumbered(t, ids) ==
  [op |-> t.op, v |-> IF t.op = "OPAQUE" THEN SelectInSeq(ids, LAMBDA i : i = t.v) ELSE t.v,
   in |-> [i \in DOMAIN t.in |-> Renumbered(t.in[i], ids)]]

\* Nodes numbered by their first place in the list, and their references there
Canonical(nodes, ref) ==
  LET ids == FoldLeft(LAMBDA all, t : all \o OpaqueIds(t), <<>>, nodes)
  IN [nodes |-> [i \in DOMAIN nodes |-> Renumbered(nodes[i], ids)],
      refs |-> [i \in DOMAIN ids |-> ref[ids[i]]]]

CanonicalMeaning(variant) ==
  LET canonical(env) ==
        [nodes |-> Canonical(env.kept, [id \in 0 .. Len(env.ref) - 1 |-> env.ref[id + 1]]),
         numRefs |-> Cardinality(DOMAIN env.refs)]
  IN canonical(MeaningOfVariant(variant))

==============================================================================
