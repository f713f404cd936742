----------------------------- MODULE MCConsole -----------------------------
(* Calls of snprintf and printk: every flag with every kind of conversion,  *)
(* with and without width and precision, and formats that mix them.         *)
EXTENDS Console

Flags_ == {<<>>, <<"-">>, <<"0">>, <<"+">>, <<" ">>, <<"-", "0">>, <<"+", "0">>, <<"#", "-", "+">>}
Specs == {f \o w \o p : f \in Flags_, w \in {<<>>, <<"5">>}, p \in {<<>>, <<".", "3">>}}
Of(s, conv, a) == [fmt |-> <<"%">> \o s \o <<conv>>, args |-> <<a>>]

\* The smallest and the largest long, zero, and numbers of one and two digits.
IntCalls == {Of(s, c, [long |-> n]) : s \in Specs, c \in IntConv, n \in {-16, -7, 0, 3, 15}}
StringCalls == {Of(s, "s", a) : s \in Specs, a \in {[null |-> 0], [text |-> <<>>], [text |-> <<"a", "b", "c", "d">>]}}
\* -1.50, 0.05, 0.96, 1.96, 12.00 and -10.05, with roundings that carry.
DoubleCalls == {Of(s, "f", [double |-> n]) : s \in Specs \cup {<<".", "0">>, <<".", "1">>},
                                             n \in {-150, 5, 96, 196, 1200, -1005}}

MCPrinted ==
    {[fmt |-> <<"a", "%", "*", ".", "*", "d", "b">>, args |-> << [long |-> 4], [long |-> 2], [long |-> 9] >>],
     [fmt |-> <<"%", "-", "*", "s">>, args |-> << [long |-> -3], [text |-> <<"x", "y">>] >>],
     [fmt |-> <<"%", "e", "%", "l", "u", "%", "%", "%", "h", "n">>,
      args |-> << [double |-> 5], [long |-> 9], [null |-> 0] >>],
     [fmt |-> <<"x", "%", "w", "y", "z", "%", "1", "2">>, args |-> <<>>],
     [fmt |-> <<"x", "%", "c", "y", "%", "q">>, args |-> << [char |-> NUL] >>],
     [fmt |-> <<"h", "i", "!", "%">>, args |-> <<>>]}

MCCalls == IntCalls \cup StringCalls \cup DoubleCalls \cup MCPrinted
=============================================================================
