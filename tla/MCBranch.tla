------------------------------- MODULE MCBranch -------------------------------
(***************************************************************************)
(* The pure rules over small inputs: branches, with difficulty periods of  *)
(* three blocks, in base 16, and eras of two blocks, the last of which pay *)
(* nothing; and blocks as lists of transactions, apart from any branch.    *)
(***************************************************************************)
EXTENDS Branch, Merkle

CONSTANTS t1, t2, t3, t4, t5

MCPowLimit == <<4, 450>>     \* target 7200; half of it needs the sign digit

MCInit == Init /\ Empty

MCNext ==
    \/ Empty /\ Next /\ UNCHANGED txids
    \/ TipHeight = 0 /\ AddTransaction /\ UNCHANGED vars

MCSpec == MCInit /\ [][MCNext]_<<vars, txids>>
=============================================================================
