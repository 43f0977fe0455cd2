---------------------------- MODULE MCValidator ----------------------------
EXTENDS Validator, MCAnalyst

CONSTANTS w1, w2

Waits(ls) == [lines |-> ls, block |-> TRUE]
Glance(ls) == [lines |-> ls, block |-> FALSE]
Line(name, body) == [name |-> name, body |-> body]
Session(s, rs) == [structure |-> s, requests |-> rs]

a == X("a")
b == X("b")
c == X("c")

\* Missing entries, shared and repeated parts, names that are defined by
\* themselves, by ground names, twice or never, relations, what does not parse; a
\* client that does not wait, and then one that does.
MCSessions == {
  Session(Holed, <<Glance(<<Line("", APP(APP(I, I), Hole))>>),
                   Waits(<<Line("", APP(APP(I, I), BOT))>>)>>),
  Session(Partial, <<Waits(<<Line("a", APP(a, TOP)), Line("a", TOP)>>)>>),
  Session(Partial, <<Waits(<<Line("a", APP(F, a)), Line("", EQUAL(a, TOP))>>)>>),
  Session(Partial, <<Waits(<<Line("a", JOIN(F, a)), Line("", APP(a, a))>>)>>),
  Session(Partial, <<Glance(<<Line("", CLOSED(APP(F, Hole)))>>),
                     Waits(<<Line("", QUOTE(APP(F, Hole)))>>)>>),
  Session(Diamond, <<Waits(<<Line("a", JOIN(I, a)), Line("b", JOIN(F, a))>>)>>),
  Session(Diamond, <<Waits(<<Line("", NLESS(JOIN(F, Hole), BOT))>>)>>),
  Session(Diamond, <<Waits(<<Line("a", CLOSED(b)), Line("b", I),
                           Line("", LESS(c, QUOTE(Bad)))>>)>>),
  Session(Diamond, <<Waits(<<Line("a", I), Line("b", a), Line("c", JOIN(b, c))>>)>>)
  }

\* The terms that the server asks for, and their arguments.
RECURSIVE Parts(_)
Parts(e) == {e} \cup UNION {Parts(e.args[i]) : i \in DOMAIN e.args}

Sought(s, l, ls) == {Approximated(s, l, ParseCorpus(s, l, ls)[i], d) :
                       i \in DOMAIN ls, d \in 0 .. MaxDepth - 1}

MCKey == UNION {Parts(e) : e \in
           UNION {UNION {Sought(s.structure, Linker(s.structure, r.lines), r.lines)
                    : r \in Range(s.requests)} : s \in MCSessions}}

MCApprox == UNION {{Known(s.structure, ob) : ob \in Obs(s.structure)} : s \in MCSessions}

=============================================================================
