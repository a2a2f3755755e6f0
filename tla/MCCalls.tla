------------------------------ MODULE MCCalls --------------------------------
EXTENDS Calls, TLC

Symmetric == Permutations(Values)

Ans(c, d) == [code |-> c, data |-> d]

\* Outputs of no word and of one; a revert with the error that is decoded; a
\* failure CallError does not name.
MCAnswers ==
  {Ans("ok", <<>>), Ans("ok", <<"one">>),
   Ans("CalleeReverted", <<"sel", "one">>), Ans("KeyNotFound", <<>>)}

=============================================================================
