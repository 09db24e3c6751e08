-------------------------- MODULE SignatureParser --------------------------
(***************************************************************************)
(* SignatureParserImpl (src/src/SignatureParser.cpp): a recursive descent  *)
(* over the text of a signature file that makes the nodes of one graph per *)
(* variant.                                                                *)
(*                                                                         *)
(* A text is a sequence of tokens: spaces, the limits on the length of a   *)
(* name or a number, and what is logged are left out.  A parsing function  *)
(* takes the state of the parser and returns the one after it, with the    *)
(* node it found in n, or NULL.                                            *)
(***************************************************************************)
EXTENDS Expression

Token(kind, t, value) == [kind |-> kind, t |-> t, value |-> value]
Sym(t) == Token("symbol", t, 0)
Name(t) == Token("name", t, 0)
Decimal(value) == Token("decimal", "", value)
Hex(value) == Token("hex", "", value)
Keyword(t, value) == Token(t, value, 0)   \* IDENTIFIER or VARIANT and the rest of its line
End == Token("end", "", 0)

\* A node of NewOpaque is unlike any other: id is the dwNodeCounter at the time.
Opaque(id, in) == [op |-> "OPAQUE", v |-> id, in |-> in]

None == <<>>   \* the empty function, or set of arguments

(* The builder of a variant: labels and refs are aLabeledNodes and         *)
(* aOpaqueLabels, kept is aNodesToKeep, made what the expressions of its   *)
(* graph are, ref the dwOpaqueRefId of its opaque nodes and mem the memory *)
(* map.                                                                    *)
NewBuilder(variant) ==
  [variant |-> variant, labels |-> None, refs |-> None, kept |-> <<>>, made |-> {},
   ref |-> None, mem |-> None]

Start(text) ==
  [text |-> text, o |-> 1, n |-> NULL, nextId |-> 0, b |-> NewBuilder(""), variants |-> <<>>,
   identifier |-> "file name"]

Tok(s) == IF s.o <= Len(s.text) THEN s.text[s.o] ELSE End
At(s, symbols) == Tok(s) \in {Sym(t) : t \in symbols}
Skip(s) == [s EXCEPT !.o = @ + 1]

\* PopOffset and return nullptr; nodes that were made stay in the graph
NotFound(s, offset) == [s EXCEPT !.n = NULL, !.o = offset]
Found(s, n) == [s EXCEPT !.n = n, !.b.made = @ \cup {n}]

------------------------------------------------------------------------------
(* Numbers and names. *)

\* strtol has 32 bits in a Windows build and stops at the largest
ParseNumber(s) ==
  LET minus == At(s, {"-"})
      at == IF minus THEN Skip(s) ELSE s
      value == IF Tok(at).kind = "hex" /\ Tok(at).value > MaxInt THEN MaxInt ELSE Tok(at).value
  IN IF Tok(at).kind \notin {"decimal", "hex"} THEN NotFound(s, s.o)
     ELSE Found(Skip(at), Const(Wrap(IF minus THEN 0 - value ELSE value)))

\* A name that is no label is taken from the text all the same.
ParseName(s) ==
  IF Tok(s).kind # "name" THEN NotFound(s, s.o)
  ELSE IF Tok(s).t \in DOMAIN s.b.labels THEN Found(Skip(s), s.b.labels[Tok(s).t])
  ELSE NotFound(s, s.o + 1)

------------------------------------------------------------------------------
(* Functions. *)

NewOpaque(s, in, refId) ==
  LET made == Found([s EXCEPT !.nextId = @ + 1], Opaque(s.nextId, in))
  IN [made EXCEPT !.b.ref = (s.nextId :> refId) @@ @]

Commutative(op, a, b) ==
  CASE op = "XOR" -> NewXor(a, b) [] op = "OR" -> NewOr(a, b)
    [] op = "AND" -> NewAnd(a, b) [] op = "MULT" -> NewMult(a, b)

\* OPAQUE with an optional reference: <name>, numbered in the order of the text
OpaqueReference(s) ==
  IF ~At(s, {"<"}) THEN [s |-> s, refId |-> -1, ok |-> TRUE]
  ELSE LET name == Tok(Skip(s))
           after == Skip(Skip(s))
           refs == s.b.refs
           refId == IF name.t \in DOMAIN refs THEN refs[name.t] ELSE Cardinality(DOMAIN refs)
       IN [s |-> [Skip(after) EXCEPT !.b.refs = (name.t :> refId) @@ @], refId |-> refId,
           ok |-> name.kind = "name" /\ At(after, {">"})]

\* Faulty variant: the third and later arguments are left out.
Apply_TwoOnly(op, args) == Commutative(op, args[1], args[2])

Apply(op, args) == FoldLeft(LAMBDA t, x : Commutative(op, t, x), args[1], Tail(args))

\* The node a function makes of its arguments, s after them
MakeFunction(s, at, name, args, refId) ==
  CASE name = "STORE" /\ Len(args) = 2
         -> Found([s EXCEPT !.b.mem = NewStore(@, args[1], args[2])], Node("STORE", args))
    [] name = "LOAD" /\ Len(args) = 1 -> Found(s, NewLoad(None, s.b.mem, args[1]))
    [] name \in {"XOR", "OR", "AND", "MULT"} /\ Len(args) >= 2 -> Found(s, Apply(name, args))
    [] name = "ROTATE" /\ Len(args) = 2 -> Found(s, NewRotate(args[1], args[2]))
    [] name = "OPAQUE" -> NewOpaque(s, args, refId)
    [] OTHER -> NotFound(s, at)

RECURSIVE ParseExpression(_, _), Operands(_, _, _, _)

All == {"ADDITION", "SHIFT", "FUNCTION", "NAME", "NUMBER"}
Operand == All \ {"ADDITION", "SHIFT"}

\* Expressions of kinds mask as long as separator follows; one that is missing
\* after a separator ends the list.
Operands(s, mask, separator, found) ==
  LET after(r) ==
        IF r.n = NULL THEN [s |-> r, found |-> found]
        ELSE IF At(r, {separator}) THEN Operands(Skip(r), mask, separator, Append(found, r.n))
        ELSE [s |-> r, found |-> Append(found, r.n)]
  IN after(ParseExpression(s, mask))

ParseFunction(s) ==
  LET name == Tok(s).t
      made(list, refId) == IF ~At(list.s, {")"}) THEN NotFound(list.s, s.o)
                           ELSE MakeFunction(Skip(list.s), s.o, name, list.found, refId)
      function(o) ==
        IF Tok(s).kind # "name" \/ ~o.ok THEN NotFound(s, s.o)
        ELSE IF At(o.s, {"("}) THEN made(Operands(Skip(o.s), All, ",", <<>>), o.refId)
        ELSE IF name = "OPAQUE" THEN NewOpaque(o.s, <<>>, o.refId)
        ELSE NotFound(o.s, s.o)
  IN function(IF name = "OPAQUE" THEN OpaqueReference(Skip(s))
              ELSE [s |-> Skip(s), refId |-> -1, ok |-> TRUE])

------------------------------------------------------------------------------
(* Operators.  Each alternative of an expression starts over at its first  *)
(* operand, so that an operand is parsed, and its nodes made, several      *)
(* times.                                                                  *)

ParseShift(s) ==
  LET amount(first, t) == IF At(first, {">>"}) THEN NewMult(t, MinusOne) ELSE t
      shifted(first, second) == IF second.n = NULL THEN NotFound(second, s.o)
                                ELSE Found(second, NewShift(first.n, amount(first, second.n)))
      operand(first) == IF first.n = NULL \/ ~At(first, {"<<", ">>"}) THEN NotFound(first, s.o)
                        ELSE shifted(first, ParseExpression(Skip(first), Operand))
  IN operand(ParseExpression(s, Operand))

ParseAddition(s) ==
  LET sum(list) == IF Len(list.found) < 2 THEN NotFound(list.s, s.o)
                   ELSE Found(list.s, FoldLeft(NewAdd, list.found[1], Tail(list.found)))
  IN sum(Operands(s, Operand, "+", <<>>))

ParseParentheses(s) ==
  LET closed(inner) == IF inner.n # NULL /\ At(inner, {")"}) THEN Skip(inner)
                       ELSE NotFound(inner, s.o)
  IN IF At(s, {"("}) THEN closed(ParseExpression(Skip(s), All)) ELSE NotFound(s, s.o)

\* The first alternative that finds something; each goes on where the one before
\* it left the text.
OrElse(r, Alternative(_)) == IF r.n = NULL THEN Alternative(r) ELSE r

ParseExpression(s, mask) ==
  LET addition == IF "ADDITION" \in mask THEN ParseAddition(s) ELSE NotFound(s, s.o)
      shift(r) == IF "SHIFT" \in mask THEN ParseShift(r) ELSE r
      function == OrElse(OrElse(addition, shift), ParseFunction)
  IN OrElse(OrElse(OrElse(function, ParseName), ParseNumber), ParseParentheses)

------------------------------------------------------------------------------
(* Parse: statements, separated by semicolons, of one or more variants. *)

\* The variant goes into the signature unless it has no node.
FinishVariant(s, variant) ==
  [s EXCEPT !.b = NewBuilder(variant),
            !.variants = IF s.b.kept = <<>> THEN @ ELSE Append(@, s.b)]

VariantKeyword(s) ==
  IF Tok(s).kind # "VARIANT" THEN s ELSE Skip(FinishVariant(s, Tok(s).t))

\* The label, if there is one, and the rest.  TRANSIENT before a label is passed over
\* without effect: bTransient is FALSE for every statement.
StartStatement(s) ==
  LET at == IF Tok(s) = Name("TRANSIENT") THEN Skip(s) ELSE s
  IN IF Tok(at).kind = "name" /\ At(Skip(at), {":"})
     THEN [s |-> Skip(Skip(at)), label |-> {Tok(at).t}]
     ELSE [s |-> s, label |-> {}]

\* A statement r with labels; what follows it, or the result
Kept(r, label) == [r EXCEPT !.b.kept = Append(@, r.n), !.b.labels = [l \in label |-> r.n] @@ @]

RECURSIVE Statements(_)
Statements(s) ==
  LET parsed(r, label) ==
        IF r.n # NULL /\ label \cap DOMAIN r.b.labels # {} THEN [s |-> r, ok |-> FALSE]
        ELSE IF r.n # NULL /\ At(r, {";"}) THEN Statements(Skip(Kept(r, label)))
        ELSE IF r.o <= Len(r.text) THEN [s |-> r, ok |-> FALSE]
        ELSE [s |-> FinishVariant(IF r.n = NULL THEN r ELSE Kept(r, label), ""), ok |-> TRUE]
      statement(start) == parsed(ParseExpression(start.s, All), start.label)
  IN statement(StartStatement(VariantKeyword(s)))

\* The builders of the variants; ok: PARSER_STATUS_OK
Parse(text) ==
  LET variant(s) == IF Tok(s).kind = "VARIANT" THEN [Skip(s) EXCEPT !.b.variant = Tok(s).t] ELSE s
      identifier(s) == IF Tok(s).kind = "IDENTIFIER" THEN [Skip(s) EXCEPT !.identifier = Tok(s).t]
                       ELSE s
  IN Statements(variant(identifier(Start(text))))

==============================================================================
