------------------------------ MODULE Branches ------------------------------
(***************************************************************************)
(* Branches, the proposals and work items bound to them, and the agenda    *)
(* item a merge opens.  Each operation is one critical section that is     *)
(* undone when its save fails.                                             *)
(***************************************************************************)
EXTENDS Agenda, Naturals, Sequences, SequencesExt

CONSTANTS Branches, Proposals

VARIABLES
    branch,      \* status, root and merge target of each branch
    proposal,    \* proposals in the order they were made; ids may repeat
    work,        \* work items, with the proposal each was promoted from
    unfiled      \* ground truth: merged branches whose item the founder has not resolved

branchVars == <<branch, proposal, work, unfiled>>

NoBranch == "none"
MergeItem(b) == b
Active(b) == branch[b].status = "active"
(* ensureActiveBranchLocked; nothing to ask of what has no branch.         *)
BranchOk(b) == b # NoBranch => Active(b)

(* branchStore.create and branchStore.merge: the target of a merge has to  *)
(* be there, and may itself be merged.                                     *)
create(b, root) ==
    /\ branch[b].status = "absent"
    /\ branch' = [branch EXCEPT ![b] = [status |-> "active", into |-> NoBranch, root |-> root]]
merge(b, into) ==
    /\ Active(b) /\ into # b /\ branch[into].status # "absent"
    /\ branch' = [branch EXCEPT ![b].status = "merged", ![b].into = into]

(* CreateBranch: a parent has to be there, not to be active, and hands its *)
(* root down.                                                              *)
CreateBranch(b, parent) ==
    /\ parent # NoBranch => branch[parent].status # "absent"
    /\ create(b, IF parent = NoBranch THEN b ELSE branch[parent].root)
    /\ UNCHANGED <<proposal, work, unfiled, agenda>>

(* Mutant of MergeOpens: a merge into the root needs no reconciliation.    *)
MergeOpensInner(b, into) ==
    IF into = branch[b].root THEN agenda ELSE Ensured(agenda, MergeItem(b))
MergeOpens(b, into) == Ensured(agenda, MergeItem(b))

MergeBranch(b, into) ==
    /\ merge(b, into)
    /\ agenda' = MergeOpens(b, into)
    /\ unfiled' = unfiled \cup {b}
    /\ UNCHANGED <<proposal, work>>

(* CreateProposal: the store does not look for the id.                     *)
CreateProposal(p, b) ==
    /\ BranchOk(b)
    /\ proposal' = Append(proposal, [id |-> p, branch |-> b, status |-> "proposed"])
    /\ UNCHANGED <<branch, work, unfiled, agenda>>

(* CreateWorkItem.                                                         *)
CreateWorkItem(b) ==
    /\ BranchOk(b)
    /\ work' = Append(work, [branch |-> b, from |-> 0])
    /\ UNCHANGED <<branch, proposal, unfiled, agenda>>

(* proposalStore.get: the first with the id.                               *)
First(i, p) == proposal[i].id = p /\ \A k \in 1 .. i - 1 : proposal[k].id # p
(* proposalStore.promote takes no other.                                   *)
Promotable(i, p) == First(i, p) /\ proposal[i].status = "proposed"

(* PromoteProposal: the branch is not looked at again.                     *)
PromoteProposal(p) ==
    \E i \in 1 .. Len(proposal) :
        /\ Promotable(i, p)
        /\ work' = Append(work, [branch |-> proposal[i].branch, from |-> i])
        /\ proposal' = [proposal EXCEPT ![i].status = "promoted"]
        /\ UNCHANGED <<branch, unfiled, agenda>>

BranchItemMoved(i, to) ==
    /\ Move(i, to)
    /\ unfiled' = IF to = "none" THEN unfiled \ {i} ELSE unfiled
    /\ UNCHANGED <<branch, proposal, work>>

BranchInit ==
    /\ branch = [b \in Branches |-> [status |-> "absent", into |-> NoBranch, root |-> NoBranch]]
    /\ proposal = << >> /\ work = << >> /\ unfiled = {}
-----------------------------------------------------------------------------
(* A proposal is promoted exactly when one work item has come of it, on    *)
(* the branch of the proposal (PromoteProposal).                           *)
PromotedHasOneWork ==
    \A i \in 1 .. Len(proposal) :
        LET ws == {n \in 1 .. Len(work) : work[n].from = i} IN
        /\ proposal[i].status = "promoted" <=> ws # {}
        /\ \A n, m \in ws : n = m /\ work[n].branch = proposal[i].branch

(* What hangs on a merged branch - work items, also those promoted there   *)
(* after the merge, and open proposals - has its branch on the agenda      *)
(* until the founder resolves the item (MergeBranch).                      *)
StrandedIsOnAgenda ==
    \A b \in unfiled :
        (\E n \in 1 .. Len(work) : work[n].branch = b)
        \/ (\E n \in 1 .. Len(proposal) : proposal[n].branch = b) => InRoom(MergeItem(b))
=============================================================================
