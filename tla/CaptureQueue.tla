---------------------------- MODULE CaptureQueue ----------------------------
(***************************************************************************)
(* The durable work queue of claude_obsidian/capture.py: sources to be     *)
(* captured are enqueued once, claimed by a worker under a fresh token,    *)
(* completed or failed with that token, and requeued by resume().          *)
(*                                                                         *)
(* The queue is one JSON document in queue.json.  A mutation first copies  *)
(* the readable predecessor to queue.previous.json, then replaces          *)
(* queue.json; each of the two writes is atomic and the process may die    *)
(* between them, or after them before its caller hears of it.  One mutation*)
(* runs at a time: CaptureQueueLock is a second copy of the protocol of    *)
(* module MutationLock, on the same flock.                                 *)
(*                                                                         *)
(* A worker (an assistant that does the capturing) either runs the queue in*)
(* its own process or by commands that end as soon as they have answered;  *)
(* a claim records the pid of the process that made it.  Requests that the *)
(* queue refuses change nothing and are steps that stutter.                *)
(***************************************************************************)
EXTENDS Integers

CONSTANTS
  Items,          \* idempotency keys: the id of an entry is their hash
  Workers, Hosts,
  HostOf,         \* the host a worker runs on
  CommandLine,    \* workers that use the queue by short-lived commands
  Results,        \* what a capture may yield
  MayForce,       \* may resume be called with --force?
  MaxClaims,      \* bound: claims in a behaviour
  MaxCrashes,     \* bound: deaths of processes or workers
  MaxCorruptions, \* bound: how often something outside damages queue.json
  NoResult, NoDoc, Torn

Tokens  == 1..MaxClaims
NoToken == 0
Entry   == [state : {"missing", "queued", "claimed", "completed", "failed"},
            tok : 0..MaxClaims, result : Results \cup {NoResult},
            error : {"none", "retryable", "permanent"}]
Docs    == [revision : Nat, entries : [Items -> Entry]]
Calls   == [op : {"none", "enqueue", "claim", "complete", "fail", "resume"},
            by : Workers, tok : 0..MaxClaims, result : Results \cup {NoResult}]

ASSUME QueueAssumption ==
  /\ Items # {} /\ Workers # {} /\ HostOf \in [Workers -> Hosts]
  /\ CommandLine \subseteq Workers
  /\ MayForce \in BOOLEAN
  /\ NoResult \notin Results
  /\ NoDoc \notin Docs /\ Torn \notin Docs /\ NoDoc # Torn
  /\ MaxClaims \in Nat /\ MaxCrashes \in Nat /\ MaxCorruptions \in Nat

VARIABLES
  primary,  \* queue.json: a document, NoDoc, or Torn when it cannot be read
  previous, \* queue.previous.json
  pc,       \* where the mutation that holds the queue lock is
  call,     \* which mutation it is, and of whom
  doc,      \* the document it writes
  claimOf,  \* the claim object made with each token: item and worker
  held,     \* the token a worker works under, NoToken if none
  ended,    \* tokens whose claiming process no longer exists
  old,      \* tokens claimed longer than stale_after ago
  used,     \* tokens so far: uuid4, here fresh numbers
  accepted, \* history: completions the queue has answered with success
  acked,    \* history: revision of the last mutation its caller heard of
  crashes, corruptions

files    == <<primary, previous>>
mutation == <<pc, call, doc>>
claims   == <<claimOf, held, ended, old, used>>
history  == <<accepted, acked>>
bounds   == <<crashes, corruptions>>
vars     == <<files, mutation, claims, history, bounds>>

PCs    == {"idle", "rotate", "replace", "reply"}
Claims == [item : Items, by : Workers]

TypeOK ==
  /\ primary \in Docs \cup {NoDoc, Torn}
  /\ previous \in Docs \cup {NoDoc}
  /\ pc \in PCs
  /\ call \in Calls
  /\ doc \in Docs
  /\ claimOf \in [Tokens -> Claims]
  /\ held \in [Workers -> 0..MaxClaims]
  /\ ended \subseteq Tokens
  /\ old \subseteq Tokens
  /\ used \in 0..MaxClaims
  /\ accepted \subseteq (Tokens \X Results)
  /\ acked \in Nat
  /\ crashes \in 0..MaxCrashes
  /\ corruptions \in 0..MaxCorruptions

EntryIn(state, t, error) ==
  [state |-> state, tok |-> t, result |-> NoResult, error |-> error]
NoEntry == EntryIn("missing", NoToken, "none")
Empty   == [revision |-> 0, entries |-> [i \in Items |-> NoEntry]]
NoCall  == [op |-> "none", by |-> CHOOSE w \in Workers : TRUE,
            tok |-> NoToken, result |-> NoResult]

Init ==
  /\ primary = NoDoc /\ previous = NoDoc
  /\ pc = "idle" /\ call = NoCall /\ doc = Empty
  /\ claimOf = [t \in Tokens |-> CHOOSE c \in Claims : TRUE]
  /\ held = [w \in Workers |-> NoToken]
  /\ ended = {} /\ old = {} /\ used = 0
  /\ accepted = {} /\ acked = 0
  /\ crashes = 0 /\ corruptions = 0

-----------------------------------------------------------------------------
(***************************************************************************)
(* Reading the queue                                                       *)
(***************************************************************************)
\* The document an operation starts from; it raises if there is none.
Loaded == IF primary = NoDoc THEN Empty ELSE primary
Ready  == pc = "idle" /\ primary # Torn

\* Whatever operation loads a damaged queue.json first puts its predecessor
\* back, durably, and goes on from there; list() and recover() stop after it.
RecoverPrimary ==
  /\ pc = "idle"
  /\ primary = Torn /\ previous # NoDoc
  /\ primary' = previous
  /\ acked' = IF acked > previous.revision THEN previous.revision ELSE acked
  /\ UNCHANGED <<previous, mutation, claims, accepted, bounds>>

-----------------------------------------------------------------------------
(***************************************************************************)
(* Operations: check the entry and prepare the new document.               *)
(***************************************************************************)
Mutate(op, w, t, r, entries) ==
  /\ doc' = [revision |-> Loaded.revision + 1, entries |-> entries]
  /\ call' = [op |-> op, by |-> w, tok |-> t, result |-> r]
  /\ pc' = "rotate"

Change(i, e) == [Loaded.entries EXCEPT ![i] = e]

\* A key that is already there is answered with its entry, unchanged.
Enqueue(w, i) ==
  /\ Ready
  /\ Loaded.entries[i].state = "missing"
  /\ Mutate("enqueue", w, NoToken, NoResult,
            Change(i, EntryIn("queued", NoToken, "none")))
  /\ UNCHANGED <<files, claims, history, bounds>>

\* Wrong variant: the error of the last attempt stays in the entry.
ClaimKeepsError(w, i) ==
  /\ Ready
  /\ held[w] = NoToken /\ used < MaxClaims
  /\ Loaded.entries[i].state = "queued"
  /\ used' = used + 1
  /\ claimOf' = [claimOf EXCEPT ![used + 1] = [item |-> i, by |-> w]]
  /\ Mutate("claim", w, used + 1, NoResult,
            Change(i, [Loaded.entries[i] EXCEPT !.state = "claimed",
                                                !.tok = used + 1]))
  /\ UNCHANGED <<files, held, ended, old, history, bounds>>

Claim(w, i) ==
  /\ Ready
  /\ held[w] = NoToken /\ used < MaxClaims
  /\ Loaded.entries[i].state = "queued"
  /\ used' = used + 1
  /\ claimOf' = [claimOf EXCEPT ![used + 1] = [item |-> i, by |-> w]]
  /\ Mutate("claim", w, used + 1, NoResult,
            Change(i, EntryIn("claimed", used + 1, "none")))
  /\ UNCHANGED <<files, held, ended, old, history, bounds>>

\* The entry a worker works on, and whether its claim is still the one there.
ItemOf(w)   == claimOf[held[w]].item
EntryOf(w)  == Loaded.entries[ItemOf(w)]

\* Wrong variant: the token is not compared with the entry's claim.
AnyClaim(w) == held[w] # NoToken

AssertClaim(w) == held[w] # NoToken /\ EntryOf(w).tok = held[w]

Complete(w, r) ==
  /\ Ready
  /\ AssertClaim(w)
  /\ EntryOf(w).state = "claimed"
  /\ Mutate("complete", w, held[w], r,
            Change(ItemOf(w), [EntryOf(w) EXCEPT !.state = "completed",
                                                 !.result = r]))
  /\ UNCHANGED <<files, claims, history, bounds>>

\* A worker that did not hear of its completion repeats it.
CompleteAgain(w, r) ==
  /\ Ready
  /\ AssertClaim(w)
  /\ EntryOf(w).state = "completed" /\ EntryOf(w).result = r
  /\ accepted' = accepted \cup {<<held[w], r>>}
  /\ UNCHANGED <<files, mutation, claims, acked, bounds>>

Fail(w, retryable) ==
  /\ Ready
  /\ AssertClaim(w)
  /\ EntryOf(w).state = "claimed"
  /\ Mutate("fail", w, held[w], NoResult,
            Change(ItemOf(w), [EntryOf(w) EXCEPT !.state = "failed",
                    !.error = IF retryable THEN "retryable" ELSE "permanent"]))
  /\ UNCHANGED <<files, claims, history, bounds>>

\* Wrong variant: a pid of another host is looked up on this one.
AbandonedAnywhere(w, t) ==
  /\ t \in old
  /\ HostOf[claimOf[t].by] = HostOf[w] => t \in ended

\* The claim is of this host, its process is gone and it is old.
Abandoned(w, t) ==
  /\ HostOf[claimOf[t].by] = HostOf[w]
  /\ t \in old
  /\ t \in ended

\* Wrong variant: only failed entries are looked at.
ResumableFailure(w, e, includeFailed, force) ==
  /\ e.state = "failed" /\ includeFailed
  /\ force \/ e.error = "retryable"

Resumable(w, e, includeFailed, force) ==
  \/ /\ e.state = "failed" /\ includeFailed
     /\ force \/ e.error = "retryable"
  \/ /\ e.state = "claimed"
     /\ force \/ Abandoned(w, e.tok)

\* One entry or all of them; the error of a requeued entry is kept.
Resume(w, candidates, includeFailed, force) ==
  LET chosen == {i \in candidates : Resumable(w, Loaded.entries[i],
                                              includeFailed, force)}
  IN /\ Ready
     /\ chosen # {}
     /\ Mutate("resume", w, NoToken, NoResult,
               [i \in Items |->
                  IF i \in chosen
                  THEN EntryIn("queued", NoToken, Loaded.entries[i].error)
                  ELSE Loaded.entries[i]])
     /\ UNCHANGED <<files, claims, history, bounds>>

-----------------------------------------------------------------------------
(***************************************************************************)
(* _save_locked: the predecessor, then the queue itself, then the answer.  *)
(***************************************************************************)
\* Wrong variant: a predecessor is kept for good.
RotateOnce ==
  /\ pc = "rotate"
  /\ previous' = IF primary \in {NoDoc, Torn} \/ previous # NoDoc
                 THEN previous ELSE primary
  /\ pc' = "replace"
  /\ UNCHANGED <<primary, call, doc, claims, history, bounds>>

\* Wrong variant: the predecessor is copied without being read.
RotateUnread ==
  /\ pc = "rotate"
  /\ previous' = IF primary = NoDoc THEN previous ELSE primary
  /\ pc' = "replace"
  /\ UNCHANGED <<primary, call, doc, claims, history, bounds>>

\* A queue.json that has become unreadable does not replace the predecessor.
Rotate ==
  /\ pc = "rotate"
  /\ previous' = IF primary \in {NoDoc, Torn} THEN previous ELSE primary
  /\ pc' = "replace"
  /\ UNCHANGED <<primary, call, doc, claims, history, bounds>>

Replace ==
  /\ pc = "replace"
  /\ primary' = doc
  /\ pc' = "reply"
  /\ UNCHANGED <<previous, call, doc, claims, history, bounds>>

\* The caller hears the answer; a command's process ends with it.
Reply ==
  /\ pc = "reply"
  /\ pc' = "idle" /\ call' = NoCall /\ doc' = Empty
  /\ acked' = doc.revision
  /\ accepted' = IF call.op = "complete"
                 THEN accepted \cup {<<call.tok, call.result>>} ELSE accepted
  /\ held' = IF call.op = "claim" THEN [held EXCEPT ![call.by] = call.tok]
             ELSE IF call.op = "fail" THEN [held EXCEPT ![call.by] = NoToken]
             ELSE held
  /\ ended' = IF call.op = "claim" /\ call.by \in CommandLine
              THEN ended \cup {call.tok} ELSE ended
  /\ UNCHANGED <<files, claimOf, old, used, bounds>>

-----------------------------------------------------------------------------
(***************************************************************************)
(* Workers and the environment                                             *)
(***************************************************************************)
\* The work is over: completed, failed, or the claim is no longer there.
LetGo(w) ==
  /\ Ready
  /\ held[w] # NoToken
  /\ ~(EntryOf(w).tok = held[w] /\ EntryOf(w).state = "claimed")
  /\ held' = [held EXCEPT ![w] = NoToken]
  /\ UNCHANGED <<files, mutation, claimOf, ended, old, used, history, bounds>>

Made(w) == {t \in 1..used : claimOf[t].by = w}

\* A worker dies with its process, idle or in the middle of a mutation.
Die(w) ==
  /\ crashes < MaxCrashes
  /\ crashes' = crashes + 1
  /\ ended' = ended \cup Made(w)
  /\ held' = [held EXCEPT ![w] = NoToken]
  /\ IF pc # "idle" /\ call.by = w
     THEN pc' = "idle" /\ call' = NoCall /\ doc' = Empty
     ELSE UNCHANGED mutation
  /\ UNCHANGED <<files, claimOf, old, used, history, corruptions>>

\* A command dies, its worker does not.
CommandDies ==
  /\ pc # "idle" /\ call.by \in CommandLine
  /\ crashes < MaxCrashes
  /\ crashes' = crashes + 1
  /\ pc' = "idle" /\ call' = NoCall /\ doc' = Empty
  /\ ended' = IF call.op = "claim" THEN ended \cup {call.tok} ELSE ended
  /\ UNCHANGED <<files, claimOf, held, old, used, history, corruptions>>

Age(t) ==
  /\ t \in 1..used /\ t \notin old
  /\ old' = old \cup {t}
  /\ UNCHANGED <<files, mutation, claimOf, held, ended, used, history, bounds>>

Corrupt ==
  /\ primary \in Docs
  /\ corruptions < MaxCorruptions
  /\ corruptions' = corruptions + 1
  /\ primary' = Torn
  /\ UNCHANGED <<previous, mutation, claims, history, crashes>>

-----------------------------------------------------------------------------
ResumeAny(w) ==
  \E candidates \in {{i} : i \in Items} \cup {Items},
     includeFailed \in BOOLEAN, force \in {FALSE, MayForce} :
    Resume(w, candidates, includeFailed, force)

Save == Rotate \/ Replace \/ Reply

Next ==
  \/ RecoverPrimary
  \/ \E w \in Workers :
       \/ \E i \in Items : Enqueue(w, i) \/ Claim(w, i)
       \/ \E r \in Results : Complete(w, r) \/ CompleteAgain(w, r)
       \/ \E retryable \in BOOLEAN : Fail(w, retryable)
       \/ ResumeAny(w) \/ LetGo(w) \/ Die(w)
  \/ Save
  \/ CommandDies
  \/ \E t \in Tokens : Age(t)
  \/ Corrupt

Spec == Init /\ [][Next]_vars

\* A mutation under way goes on, claims grow old, and on every host somebody
\* runs a resume of everything again and again.
FairSpec ==
  /\ Spec
  /\ WF_vars(Save)
  /\ \A t \in Tokens : WF_vars(Age(t))
  /\ \A h \in Hosts : WF_vars(\E w \in Workers : /\ HostOf[w] = h
                                                 /\ Resume(w, Items, TRUE, FALSE))

-----------------------------------------------------------------------------
(***************************************************************************)
(* Properties                                                              *)
(***************************************************************************)

\* Every document the queue is about to write passes _validate_document, so
\* no sequence of operations ends in a queue that refuses to be saved or read.
EntryValid(e) ==
  /\ e.state \in {"missing", "queued"} <=> e.tok = NoToken
  /\ e.state = "completed" <=> e.result # NoResult
  /\ e.state \in {"claimed", "completed"} => e.error = "none"
  /\ e.state = "failed" => e.error # "none"
ValidDocument == \A i \in Items : EntryValid(doc.entries[i])

\* However often an item is claimed, failed, resumed (by force even) and its
\* answers get lost, at most one worker's result is ever accepted for it.
OneResult ==
  corruptions = 0 =>
    \A a, b \in accepted : claimOf[a[1]].item = claimOf[b[1]].item => a = b

\* A damaged queue.json costs the last mutation a caller heard of and no more;
\* a second one is lost only if the damage came while one was being saved.
LosesLittle ==
  LET next == IF primary = Torn THEN previous ELSE Loaded
  IN next # NoDoc => acked <= next.revision + corruptions

\* A worker works under this token: it holds it, or its claim is being answered.
WorksUnder(t) ==
  \/ \E w \in Workers : held[w] = t
  \/ pc = "reply" /\ call.op = "claim" /\ call.tok = t

\* "Requeue failed work and abandoned claims, never stealing a live claim by
\* default" (capture.py): resume without --force leaves a claim alone as long
\* as its worker is at work.
LiveClaimNotStolen ==
  [][\A i \in Items, t \in Tokens :
       call'.op = "resume" /\ pc = "idle" /\ pc' = "rotate"
         /\ Loaded.entries[i].state = "claimed" /\ Loaded.entries[i].tok = t
         /\ WorksUnder(t)
       => doc'.entries[i] = Loaded.entries[i]]_vars

\* A claim whose process is gone does not keep its item for ever, also when
\* the worker never heard of it: it is completed, failed or requeued.
AbandonedMovesOn ==
  \A i \in Items, t \in Tokens :
    t \in ended /\ Loaded.entries[i].tok = t /\ Loaded.entries[i].state = "claimed"
      ~> Loaded.entries[i].tok # t \/ Loaded.entries[i].state # "claimed"
-----------------------------------------------------------------------------
(***************************************************************************)
(* The inductive invariant behind ValidDocument and OneResult.             *)
(***************************************************************************)
Valid(d)  == \A i \in Items : EntryValid(d.entries[i])
ValidInv  == /\ Valid(doc)
             /\ primary \in Docs => Valid(primary)
             /\ previous \in Docs => Valid(previous)

\* Tokens in use were made, so what they claim no longer changes.
MadeInv ==
  /\ \A w \in Workers : held[w] <= used
  /\ \A a \in accepted : a[1] <= used
  /\ pc # "idle" => call.tok <= used
  /\ pc # "idle" /\ call.op = "complete" =>
       call.tok # NoToken /\ call.result # NoResult
  /\ pc # "idle" /\ call.op = "claim" => call.tok # NoToken

\* What has been completed stays as it is, and what is being answered is there.
CompletedInv ==
  corruptions = 0 =>
    /\ primary # Torn
    /\ pc = "reply" => primary = doc
    /\ pc # "idle" => \A i \in Items :
         Loaded.entries[i].state = "completed" =>
           doc.entries[i] = Loaded.entries[i]
    /\ pc # "idle" /\ call.op = "complete" =>
         LET e == doc.entries[claimOf[call.tok].item]
         IN /\ e.state = "completed"
            /\ e.tok = call.tok
            /\ e.result = call.result
    /\ \A a \in accepted :
         LET e == Loaded.entries[claimOf[a[1]].item]
         IN /\ e.state = "completed"
            /\ e.tok = a[1]
            /\ e.result = a[2]

IInv == TypeOK /\ ValidInv /\ MadeInv /\ CompletedInv

(***************************************************************************)
(* What LosesLittle needs besides: every damage of queue.json sets the two *)
(* files one revision further apart, and a caller hears of a revision only *)
(* when it is in queue.json and its predecessor is at most one behind.     *)
(***************************************************************************)
RevisionInv ==
  /\ primary # Torn => acked <= Loaded.revision + corruptions
  /\ pc \in {"rotate", "replace"} => acked <= doc.revision + corruptions
  /\ pc = "rotate" /\ primary # Torn => doc.revision = Loaded.revision + 1
  /\ pc = "reply" => primary \in {doc, Torn}
  /\ previous # NoDoc =>
       LET behind == previous.revision + corruptions
       IN /\ acked <= behind + 1
          /\ primary \in Docs => primary.revision <= behind + 1
          /\ pc \in {"replace", "reply"} => doc.revision <= behind + 1
          /\ primary = Torn => /\ acked <= behind
                               /\ pc = "rotate" => doc.revision <= behind + 1
                               /\ pc = "reply" => doc.revision <= behind

\* What LiveClaimNotStolen needs: a token belongs to the worker that made it,
\* and while that worker runs the queue in its own process the process lives.
OwnerInv ==
  /\ ended \subseteq 1..used
  /\ \A w \in Workers : held[w] # NoToken =>
       /\ claimOf[held[w]].by = w
       /\ w \notin CommandLine => held[w] \notin ended
  /\ pc # "idle" /\ call.op = "claim" =>
       /\ claimOf[call.tok].by = call.by
       /\ call.by \notin CommandLine => call.tok \notin ended
=============================================================================
