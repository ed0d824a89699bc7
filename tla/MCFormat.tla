------------------------------ MODULE MCFormat ------------------------------
(***************************************************************************)
(* Format with three rows of two characters: messages that are empty, too  *)
(* wide or longer than the screen, every conversion, and the numbers at    *)
(* the ends of the processor's words.                                      *)
(***************************************************************************)
EXTENDS Format

Code == 0 .. 255
MCCalls == {<<>>, <<Lit(65)>>, <<Lit(10)>>, <<Lit(66), Lit(10), Lit(67)>>,
            <<Lit(65), Escape(110, 10), S(<<66, 10, 67, 68, 69>>), Lit(10), C(70)>>,
            <<S(<<>>), D(0), D(7), Lit(10), D(1020), Escape(114, 13)>>,
            <<D(2147483647), X(0, <<0, 0, 0, 0, 0, 0, 0, 0>>), OddEscape(92), Lone(Backslash)>>,
            <<D(-1), Lit(10), D(-2147483647 - 1), Lone(Percent)>>,
            <<X(-1, <<15, 15, 15, 15, 15, 15, 15, 15>>),
              OddPercent(Percent), Lit(10), X(439041101, <<1, 10, 2, 11, 3, 12, 4, 13>>), C(37)>>}

\* What Screen should be given then.
MCMessages == {Printed(pieces) : pieces \in MCCalls}

=============================================================================
