----------------------------- MODULE MCRequest -----------------------------
(***************************************************************************)
(* The clients of the runs: one that sends a letter and then request lines *)
(* and what resembles them, one that sends a request line and then headers *)
(* and a body, and one that may send nothing or a special header.          *)
(***************************************************************************)
EXTENDS Request

Clients == {
  [begins |-> <<"x">>, bytes |-> {"sp", "/", "nl", "x"}, length |-> 9],
  [begins |-> <<"x", "sp", "/", "x", "sp", "x", "cr", "nl">>,
   bytes |-> {"cr", "nl", "x", "path:"}, length |-> 16],
  [begins |-> <<>>, bytes |-> {"ff", "fe", "sp"}, length |-> 5]}
=============================================================================
