----------------------------- MODULE MCTaskRun -----------------------------
(***************************************************************************)
(* Small jobs for TaskRun: a chain that fans out, and a job with branches  *)
(* for failed filters, errors, panics, a missing and a delegated action.   *)
(***************************************************************************)
EXTENDS TaskRun

CONSTANTS walk, resize, notify, other, ignored

Jobs == {walk, resize, notify, other, ignored}

\* walk --(one message per object)--> resize --> notify
ChainRoots == <<walk>>
ChainChained == [a \in Jobs |-> IF a = walk THEN <<resize>> ELSE <<>>]
NoOnFail == [a \in Jobs |-> <<>>]

\* walk is fanned out; resize may be filtered out.
FanSelector == [a \in Jobs |-> IF a = walk THEN "fan" ELSE "none"]
PlainSelector == [a \in Jobs |-> "none"]
PassAll == [a \in Jobs |-> {"pass"}]
AllOk == [a \in Jobs |-> {"ok"}]

\* Conditional branches: other and notify are reached through failed filters.
BranchOnFail == [a \in Jobs |-> CASE a = walk -> <<other>> [] a = resize -> <<notify>> [] OTHER -> <<>>]
BranchFilters == [a \in Jobs |-> IF a \in {walk, resize} THEN {"pass", "split", "block"}
                                 ELSE IF a = other THEN {"pass", "block"} ELSE {"pass"}]
BranchSelector == [a \in Jobs |-> IF a = resize THEN "collect" ELSE "none"]

\* Faults in the first action; notify has no implementation.
Faulty == [a \in Jobs |-> IF a = walk THEN {"ok", "err", "panic"} ELSE {"ok"}]
AllButNotify == Jobs \ {notify}
=============================================================================
