------------------------------ MODULE Programs ------------------------------
(***************************************************************************)
(* ProgramParser (program.cpp): compiled programs, in which variables have *)
(* names, become programs of registers.  A line is a record of an opcode,  *)
(* the tables it names and its arguments; the byte code has one byte for   *)
(* each of them.  What the opcode says of an argument (NEW_OB, OB, ...) is *)
(* kept with it:                                                           *)
(*                                                                         *)
(*   "new", "old"     a register of obs that the line sets or reads        *)
(*   "newset"         a register of sets that it sets                      *)
(*   "pos", "neg"     one that it intersects with, or with the complement  *)
(*   "jump"           the length of the first branch of a SEQUENCE         *)
(*                                                                         *)
(* SEQUENCE runs what follows it and then, from its length on, the rest.   *)
(* Variables of the first branch are not those of the second one and share *)
(* their registers.                                                        *)
(***************************************************************************)
EXTENDS Naturals, Sequences, SequencesExt

\* Evaluates an argument once.
Only(S) == CHOOSE x \in S : TRUE

\* eval_float53(): lengths are bytes of which five bits are the significand.
EvalFloat53(n) == ((n % 32) + 32) * 2^(n \div 32) - 32

Size(line) == 1 + Len(line.tables) + Len(line.args)

-----------------------------------------------------------------------------
(* SymbolTableStack: one table per branch that is being parsed, and the    *)
(* number of the byte that ends the branch (the code counts down to it).   *)

Unnamed == [reg |-> <<>>, loaded |-> {}]
Scopes  == [ok |-> TRUE, stack |-> <<Unnamed>>, ends |-> <<>>, byte |-> 0]

Top(s) == Last(s.stack)

Store(s, name) ==
  [s EXCEPT !.ok = @ /\ name \notin DOMAIN Top(s).reg,
            !.stack[Len(s.stack)].reg =
              [x \in DOMAIN @ \cup {name} |->
                 IF x = name THEN Cardinality(DOMAIN @) ELSE @[x]]]

Load(s, name) ==
  [s EXCEPT !.ok = @ /\ name \in DOMAIN Top(s).reg,
            !.stack[Len(s.stack)].loaded = @ \cup {name}]

Unused(s) == DOMAIN Top(s).reg \ Top(s).loaded

Push(s, n) ==
  [s EXCEPT !.stack = Append(@, Top(s)), !.ends = Append(@, s.byte + EvalFloat53(n))]

\* A byte of every branch is parsed.
Pop(s, warn) ==
  LET byte == s.byte + 1
  IN  IF \E i \in DOMAIN s.ends : s.ends[i] < byte THEN [s EXCEPT !.ok = FALSE]
      ELSE IF s.ends # <<>> /\ Last(s.ends) = byte
           THEN [ok    |-> s.ok /\ (warn => Unused(s) = {}),
                 stack |-> Front(s.stack), ends |-> Front(s.ends), byte |-> byte]
           ELSE [s EXCEPT !.byte = byte]

Closed(s, warn) ==
  /\ s.ok /\ s.ends = <<>> /\ Len(s.stack) = 1
  /\ warn => Unused(s) = {}

-----------------------------------------------------------------------------
(* parse().                                                                *)

NextByte(p) == [p EXCEPT !.obs = Pop(@, FALSE), !.sets = Pop(@, TRUE)]

Bytes(p, n) == FoldLeft(LAMBDA q, i : Only({NextByte(r) : r \in {q}}), p, [i \in 1 .. n |-> i])

\* The register of an argument, and the symbol tables after it.
Argument(p, arg) ==
  CASE arg[1] = "new"          -> [p EXCEPT !.obs = Store(@, arg[2])]
    [] arg[1] = "old"          -> [p EXCEPT !.obs = Load(@, arg[2])]
    [] arg[1] = "newset"       -> [p EXCEPT !.sets = Store(@, arg[2])]
    [] arg[1] \in {"pos", "neg"} -> [p EXCEPT !.sets = Load(@, arg[2])]
    [] arg[1] = "jump"         -> p

Register(p, arg) ==
  CASE arg[1] \in {"new", "old"}           -> Top(p.obs).reg[arg[2]]
    [] arg[1] \in {"newset", "pos", "neg"} -> Top(p.sets).reg[arg[2]]
    [] arg[1] = "jump"                     -> arg[2]

Parsed(p, arg) ==
  LET q == Only({Argument(p, arg)})
  IN  IF q.obs.ok /\ q.sets.ok
      THEN NextByte([q EXCEPT !.args = Append(@, <<arg[1], Register(q, arg)>>)])
      ELSE q

ParseLine(p, line) ==
  LET q == FoldLeft(LAMBDA r, arg : Only({Parsed(t, arg) : t \in {r}}),
                    [Bytes(p, 1 + Len(line.tables)) EXCEPT !.args = <<>>],
                    line.args)
      r == [q EXCEPT !.code = Append(@, [line EXCEPT !.args = q.args])]
  IN  IF line.op = "SEQUENCE" /\ q.obs.ok /\ q.sets.ok
      THEN [r EXCEPT !.obs = Push(@, line.args[1][2]),
                     !.sets = Push(@, line.args[1][2])]
      ELSE r

Parse(lines) ==
  LET p == FoldLeft(LAMBDA q, line : Only({ParseLine(r, line) : r \in {q}}),
                    [obs |-> Scopes, sets |-> Scopes, args |-> <<>>, code |-> <<>>],
                    lines)
  IN  [ok |-> Closed(p.obs, FALSE) /\ Closed(p.sets, TRUE), code |-> p.code]

\* ProgramParser::parse_file().
ParseFile(programs) == [i \in DOMAIN programs |-> Parse(programs[i])]

\* Where the second branch of the SEQUENCE at i begins.
Jump(code, i) ==
  CHOOSE j \in i + 1 .. Len(code) :
    EvalFloat53(code[i].args[1][2])
      = FoldLeft(LAMBDA n, line : n + Size(line), 0, SubSeq(code, i + 1, j - 1))

=============================================================================
