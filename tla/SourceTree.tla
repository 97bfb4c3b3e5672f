----------------------------- MODULE SourceTree -----------------------------
(* A project's source, as the commits of DurableSource and the history of  *)
(* SourceHistory know it.  A content stands for its hash.                  *)

CONSTANTS
    Files,     \* the editable source files
    Contents,  \* contents a file may have, absence included
    First,     \* the source as it was imported
    Limit      \* HISTORY_LIMITS.transactions

Trees == [Files -> Contents]
=============================================================================
