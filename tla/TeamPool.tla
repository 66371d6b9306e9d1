------------------------------ MODULE TeamPool ------------------------------
(***************************************************************************)
(* A team takes its stake out of a validator's pool.                       *)
(*                                                                         *)
(* Only the team's DAO can do that: a member files a proposal to unstake,  *)
(* and when the pool has released the stake one to withdraw it.  Before a  *)
(* member's browser files one it reads, twice, the DAO's proposals of the  *)
(* last proposal period, a range of ids at a time, and after them the      *)
(* team's account in the pool, while other members file, vote and remove   *)
(* proposals.  Each read of the chain is one action.                       *)
(***************************************************************************)
EXTENDS Naturals, Sequences

CONSTANTS
    Submissions,    \* submissions of the form, in any member's browser
    Stake,          \* what the team has staked
    Period,         \* how long a proposal can be voted on
    PageIds,        \* ids in one read of proposals
    MaxIds,         \* how many ids are read at most
    Earlier,        \* proposals of the DAO at first
    MaxProposals,   \* bound on the proposals ever filed
    MaxClock        \* bound on the time of the chain

ASSUME PoolAssumption ==
    /\ Stake \in Nat /\ Period \in Nat
    /\ PageIds \in Nat \ {0} /\ MaxIds \in Nat \ {0}
    /\ Earlier \in Nat /\ MaxProposals \in Nat /\ MaxClock \in Nat

VARIABLES
    clock,          \* time of the chain
    dao,            \* the proposals of the DAO, by id
    pool,           \* the team's account in the pool
    submission      \* submission[s]: how far it is, and (history) whether a release was
                    \* being carried out when the chain was read, and what is unstaked
                    \* was staked or added to after the account was

poolVars == <<clock, dao, pool, submission>>

-----------------------------------------------------------------------------
Releases == {"unstake", "withdraw"}

\* What else the DAO may call: staking what is unstaked, and putting in more, unstaked
\* or at stake (which the form for a node's staking proposes).  Nothing looks for these.
Fundings == {"stake", "deposit", "deposit_and_stake"}
Amounts == 1..Stake

Unsent == [at |-> "idle", method |-> "unstake", amount |-> 0, signing |-> FALSE,
           retried |-> FALSE, now |-> 0, last |-> 0, end |-> 0,
           open |-> FALSE, flight |-> FALSE, funded |-> FALSE]

\* The DAO has had proposals that were not about the pool, some of them removed.
PoolInit ==
    /\ clock = 0
    /\ dao \in [1..Earlier -> [time : {0}, method : {"transfer"}, amount : {0},
                               status : {"InProgress", "Removed"}]]
    /\ pool = [staked |-> Stake, unstaked |-> 0, ready |-> TRUE]
    /\ submission = [s \in Submissions |-> Unsent]

-----------------------------------------------------------------------------
(* The chain                                                               *)

\* The pool carries out a call.
Accepts(method, amount) ==
    CASE method = "unstake" -> amount <= pool.staked
      [] method = "withdraw" -> pool.ready /\ amount <= pool.unstaked
      [] method = "stake" -> amount <= pool.unstaked
      [] OTHER -> TRUE

\* What is unstaked later than the rest makes all of it wait.
After(method, amount) ==
    CASE method = "unstake" -> [staked |-> pool.staked - amount,
                                unstaked |-> pool.unstaked + amount, ready |-> FALSE]
      [] method = "withdraw" -> [pool EXCEPT !.unstaked = @ - amount]
      [] method = "stake" -> [pool EXCEPT !.staked = @ + amount, !.unstaked = @ - amount]
      [] method = "deposit" -> [pool EXCEPT !.unstaked = @ + amount]
      [] OTHER -> [pool EXCEPT !.staked = @ + amount]

\* Anybody with the right files a proposal, for the pool or not.
File(method, amount) ==
    /\ Len(dao) < MaxProposals
    /\ dao' = Append(dao, [time |-> clock, method |-> method, amount |-> amount,
                           status |-> "InProgress"])

FileOther(method, amount) ==
    /\ File(method, amount)
    /\ UNCHANGED <<clock, pool, submission>>

\* The last vote on a proposal, or the end of its period: it is approved, which
\* calls the pool, or rejected, expired, or removed and no longer listed.  One whose
\* call failed can be called again as long as its period lasts.  (How a proposal that
\* is not a release ends without being carried out makes no difference, unless it is
\* removed.)
Votable(p) == p.status \in {"InProgress", "Failed"}
Expired(p, now) == p.time + Period < now

Settle(i, status) ==
    /\ Votable(dao[i])
    /\ \/ dao[i].method \in Releases
       \/ dao[i].method \in Fundings /\ status = "Executing"
       \/ status = "Removed"
    /\ status = "Executing" => ~Expired(dao[i], clock)
    /\ dao' = [dao EXCEPT ![i].status = status]
    /\ UNCHANGED <<clock, pool, submission>>

\* What was unstaked when the account was read is staked, or added to.
Overtaken(method) ==
    submission' = [s \in Submissions |->
        IF submission[s].at = "sign" /\ method \in {"stake", "deposit"}
        THEN [submission[s] EXCEPT !.funded = TRUE] ELSE submission[s]]

\* The pool's answer to the call.
Answer(i) ==
    LET p == dao[i]
    IN  /\ p.status = "Executing"
        /\ \/ /\ p.method \in Releases
              /\ dao' = [dao EXCEPT ![i].status = "Failed"]
              /\ UNCHANGED <<pool, submission>>
           \/ /\ Accepts(p.method, p.amount)
              /\ dao' = [dao EXCEPT ![i].status = "Closed"]
              /\ pool' = After(p.method, p.amount)
              /\ Overtaken(p.method)
        /\ UNCHANGED clock

\* Time passes, and with it an epoch may.
Tick ==
    /\ clock < MaxClock
    /\ clock' = clock + 1
    /\ \/ pool' = [pool EXCEPT !.ready = TRUE]
       \/ pool' = pool
    /\ UNCHANGED <<dao, submission>>

-----------------------------------------------------------------------------
(* One submission                                                          *)

Step(s, rec) == submission' = [submission EXCEPT ![s] = rec]
Chain == <<clock, dao, pool>>

\* What is open when a range was read (an expired one is kept as it was).
\* Mutant: a proposal whose call failed is over.
VotableNow(p, now) == p.status = "InProgress" /\ ~Expired(p, now)

IsOpen(p, now) == Votable(p) /\ ~Expired(p, now)

\* What was read is forgotten.
Again(x, at) == [Unsent EXCEPT !.at = at, !.method = x.method, !.amount = x.amount,
                               !.signing = x.signing]

\* The member confirms a method and an amount that the card showed earlier.
Confirm(s, method, amount) ==
    /\ submission[s].at = "idle"
    /\ Step(s, [Unsent EXCEPT !.at = "time", !.method = method, !.amount = amount])
    /\ UNCHANGED Chain

\* A release is being carried out, and will change the account.
Underway == \E i \in DOMAIN dao : dao[i].status = "Executing" /\ dao[i].method \in Releases

ReadTime(s) ==
    /\ submission[s].at = "time"
    /\ Step(s, [submission[s] EXCEPT !.at = "last", !.now = clock, !.flight = Underway])
    /\ UNCHANGED Chain

ReadLast(s) ==
    /\ submission[s].at = "last"
    /\ Step(s, [submission[s] EXCEPT !.at = "range", !.last = Len(dao), !.end = Len(dao)])
    /\ UNCHANGED Chain

\* Mutant: the lower end of a range is not kept from going below the first id.
AboveUnclamped(n, m) == n - m

Above(n, m) == IF n > m THEN n - m ELSE 0
Floor(x) == Above(x.last, MaxIds)

Start(x) == IF Above(x.end, PageIds) > Floor(x) THEN Above(x.end, PageIds) ELSE Floor(x)

\* The ids of one range; a removed proposal leaves a gap.
IdRange(x) == {i \in DOMAIN dao : i > Start(x) /\ i <= x.end /\ dao[i].status # "Removed"}

Calls(ids) == {dao[i] : i \in {j \in ids : dao[j].method \in Releases}}

\* A range has what is older than a period: what is below it is older still.
\* Mutant: reading ends at a range without proposals.
ReachedGap(ids, now) == ids = {} \/ \E i \in ids : Expired(dao[i], now)

ReachedPast(ids, now) == \E i \in ids : Expired(dao[i], now)

ToAccount(x) == [x EXCEPT !.at = "account", !.now = 0, !.end = 0]

ReadRange(s) ==
    LET x == submission[s]
        ids == IdRange(x)
        read == [x EXCEPT !.end = Start(x),
                          !.open = @ \/ \E p \in Calls(ids) : IsOpen(p, x.now),
                          !.flight = @ \/ Underway]
    IN  /\ x.at = "range" /\ x.end > Floor(x)
        /\ Step(s, IF ReachedPast(ids, x.now) THEN ToAccount(read) ELSE read)
        /\ UNCHANGED Chain

\* All ids are read; if there are more than that, the read fails (Stop).
AllRead(s) ==
    LET x == submission[s]
    IN  /\ x.at = "range" /\ x.end <= Floor(x)
        /\ Floor(x) = 0
        /\ Step(s, ToAccount(x))
        /\ UNCHANGED Chain

\* What the account allows next, and at most how much of it.
Phase == IF pool.unstaked > 0 THEN (IF pool.ready THEN "withdraw" ELSE "pending-release")
         ELSE IF pool.staked > 0 THEN "unstake" ELSE "none"
Balance(method) == IF method = "unstake" THEN pool.staked ELSE pool.unstaked

\* The account is read last: go on, or to the wallet after the second time.
ReadAccount(s) ==
    LET x == submission[s]
    IN  /\ x.at = "account"
        /\ ~x.open
        /\ Phase = x.method
        /\ x.amount <= Balance(x.method)
        /\ Step(s, IF x.signing THEN [x EXCEPT !.at = "sign", !.retried = FALSE]
                   ELSE Again(x, "connect"))
        /\ UNCHANGED Chain

\* The DAO's wallet is connected, and everything is read again.
Connect(s) ==
    /\ submission[s].at = "connect"
    /\ Step(s, [Again(submission[s], "time") EXCEPT !.signing = TRUE])
    /\ UNCHANGED Chain

\* The card read something new meanwhile: the reads start again, once.
Supersede(s) ==
    LET x == submission[s]
    IN  /\ x.at \in {"last", "range", "account"}
        /\ ~x.retried
        /\ Step(s, [Again(x, "time") EXCEPT !.retried = TRUE])
        /\ UNCHANGED Chain

Sign(s) ==
    LET x == submission[s]
    IN  /\ x.at = "sign"
        /\ File(x.method, x.amount)
        /\ Step(s, Unsent)
        /\ UNCHANGED <<clock, pool>>

\* It is blocked, a read or the wallet fails, or the dialog is closed.
Stop(s) ==
    /\ submission[s].at # "idle"
    /\ Step(s, Unsent)
    /\ UNCHANGED Chain

Submit(s) ==
    \/ \E m \in Releases, a \in Amounts : Confirm(s, m, a)
    \/ ReadTime(s) \/ ReadLast(s) \/ ReadRange(s) \/ AllRead(s) \/ ReadAccount(s)
    \/ Connect(s) \/ Supersede(s) \/ Sign(s) \/ Stop(s)

PoolNext ==
    \/ \E m \in Releases \cup Fundings, a \in Amounts : FileOther(m, a)
    \/ \E i \in DOMAIN dao : \/ \E v \in {"Executing", "Closed", "Removed"} : Settle(i, v)
                             \/ Answer(i)
    \/ Tick
    \/ \E s \in Submissions : Submit(s)

PoolSpec == PoolInit /\ [][PoolNext]_poolVars

-----------------------------------------------------------------------------
ProposalType == [time : Nat, method : Releases \cup Fundings \cup {"transfer"}, amount : Nat,
                 status : {"InProgress", "Failed", "Executing", "Closed", "Removed"}]
SubmissionType == [at : {"idle", "time", "last", "range", "account", "connect", "sign"},
                   method : Releases, amount : Nat, signing : BOOLEAN, retried : BOOLEAN,
                   now : Nat, last : Nat, end : Nat,
                   open : BOOLEAN, flight : BOOLEAN, funded : BOOLEAN]

\* Every variable has its type.
PoolTypeOK ==
    /\ clock \in Nat
    /\ dao \in Seq(ProposalType)
    /\ pool \in [staked : Nat, unstaked : Nat, ready : BOOLEAN]
    /\ submission \in [Submissions -> SubmissionType]

\* What a submission read: the proposals there were at the time, none of them about
\* to be carried out.
HasRead(s) == submission[s].at \in {"account", "sign"} /\ ~submission[s].flight

\* No proposal that can still take stake out of the pool escapes a read that finds
\* none, over gaps in the ids, proposals filed and removed between its ranges, and
\* the limit on the ids.
OpenIsSeen ==
    \A s \in Submissions : HasRead(s) /\ ~submission[s].open =>
        \A i \in 1..submission[s].last :
            dao[i].method \in Releases => ~(Votable(dao[i]) /\ ~Expired(dao[i], clock))

\* What a member signs the pool can still carry out, however late, unless somebody
\* else has filed a release after the ids were read, an approved one was just being
\* carried out, or what is unstaked was meanwhile staked again or added to.
AskIsCovered ==
    \A s \in Submissions :
        LET x == submission[s]
        IN  /\ x.at = "sign" /\ ~x.flight /\ ~x.funded
            /\ \A i \in DOMAIN dao : i > x.last => dao[i].method \notin Releases
            => Accepts(x.method, x.amount) /\ (x.method = "unstake" => pool.unstaked = 0)
=============================================================================
