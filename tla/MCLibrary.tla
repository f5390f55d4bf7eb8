----------------------------- MODULE MCLibrary -----------------------------
(***************************************************************************)
(* Numbers of eight bits, all of them in each conversion; formats that mix *)
(* conversions, and two that end in the middle of one; lines, paths and    *)
(* memory small enough for all cases of overlap and of adjacent, leading   *)
(* and trailing delimiters.                                                *)
(***************************************************************************)
EXTENDS CLibrary

Ints == -128 .. 127
Words == 0 .. 255

MCCalls ==
  {<< <<"%", "d">>, <<n>> >> : n \in Ints}
  \cup {<< <<"%", letter>>, <<n>> >> : letter \in {"u", "x", "p"}, n \in Words}
  \cup {<< <<"%", "x", "a", "%", "d">>, <<m, n>> >> : m \in {0, 127, 255}, n \in {-128, -1, 10}}
  \cup {<< <<"%", "s", "%", "c", "%", "%", "%", "u">>, << <<"b", "c">>, <<"d">>, 9>> >>,
        << <<"a", "%", "q", "%", "d">>, <<-10>> >>,
        << <<"a", "%">>, << >> >>, << << >>, << >> >>}

MCLines == UNION {[1 .. n -> {"a", "b", Space}] : n \in 0 .. 5}
MCPaths == UNION {[1 .. n -> {"a", "b", Slash}] : n \in 0 .. 5}
=============================================================================
