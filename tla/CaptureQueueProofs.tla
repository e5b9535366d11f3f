------------------------- MODULE CaptureQueueProofs -------------------------
(***************************************************************************)
(* For all items, workers, hosts and bounds: what the capture queue writes *)
(* is always a valid document, while nothing outside damages queue.json at *)
(* most one worker's result is accepted for an item, each damage costs at  *)
(* most one mutation, and live claims of workers that run the queue in     *)
(* their own process are not stolen.                                       *)
(***************************************************************************)
EXTENDS CaptureQueue, TLAPS

\* Constants and the empty document.
LEMMA Facts ==
  /\ MaxClaims \in Nat /\ MaxCrashes \in Nat /\ MaxCorruptions \in Nat
  /\ NoResult \notin Results
  /\ NoDoc \notin Docs /\ Torn \notin Docs /\ NoDoc # Torn
  BY QueueAssumption

\* An entry that is not there is an entry.
LEMMA NoEntryType == NoEntry \in Entry /\ EntryValid(NoEntry)
  BY Facts DEF NoEntry, EntryIn, Entry, NoToken, EntryValid

\* The queue of a vault without queue.json is a valid document.
LEMMA EmptyType == Empty \in Docs /\ Valid(Empty)
<1>1. Empty.entries \in [Items -> Entry] /\ Empty.revision = 0
  BY NoEntryType DEF Empty
<1>2. \A i \in Items : Empty.entries[i] = NoEntry
  BY DEF Empty
<1> QED
  BY <1>1, <1>2, NoEntryType DEF Empty, Docs, Valid

\* The idle call has its type.
LEMMA NoCallType == NoCall \in Calls /\ NoCall.op = "none"
<1>1. (CHOOSE w \in Workers : TRUE) \in Workers
  BY QueueAssumption
<1> QED
  BY <1>1, Facts DEF NoCall, Calls, NoToken

\* What an operation loads is a document, and a valid one.
LEMMA LoadedFacts ==
  ASSUME TypeOK, ValidInv, primary # Torn
  PROVE  Loaded \in Docs /\ Valid(Loaded)
  BY EmptyType DEF TypeOK, ValidInv, Loaded

\* The program points and calls by name.
LEMMA Names ==
  /\ "idle" \in PCs /\ "rotate" \in PCs /\ "replace" \in PCs
  /\ "reply" \in PCs
  BY DEF PCs

-----------------------------------------------------------------------------
(***************************************************************************)
(* What every operation that writes has in common.                         *)
(***************************************************************************)
Prepared ==
  /\ pc = "idle" /\ pc' = "rotate" /\ primary # Torn
  /\ doc' \in Docs /\ Valid(doc') /\ call' \in Calls
  /\ \A i \in Items : Loaded.entries[i].state = "completed" =>
                        doc'.entries[i] = Loaded.entries[i]
  /\ used' \in 0..MaxClaims /\ used <= used'
  /\ claimOf' \in [Tokens -> Claims]
  /\ \A t \in Tokens : t <= used => claimOf'[t] = claimOf[t]
  /\ call'.tok <= used'
  /\ call'.op = "claim" => call'.tok # NoToken
  /\ call'.op = "complete" =>
       /\ call'.tok # NoToken /\ call'.tok <= used /\ call'.result # NoResult
       /\ doc'.entries[claimOf'[call'.tok].item].state = "completed"
       /\ doc'.entries[claimOf'[call'.tok].item].tok = call'.tok
       /\ doc'.entries[claimOf'[call'.tok].item].result = call'.result
  /\ UNCHANGED <<files, held, ended, old, history, bounds>>

\* Replacing one valid entry that is not completed keeps a document valid.
LEMMA ChangeFacts ==
  ASSUME TypeOK, ValidInv, primary # Torn, NEW i \in Items, NEW e \in Entry,
         EntryValid(e)
  PROVE  LET d == [revision |-> Loaded.revision + 1, entries |-> Change(i, e)]
         IN /\ d \in Docs /\ Valid(d)
            /\ d.entries[i] = e
            /\ \A j \in Items : j # i => d.entries[j] = Loaded.entries[j]
<1> DEFINE d == [revision |-> Loaded.revision + 1, entries |-> Change(i, e)]
<1>1. Loaded \in Docs /\ Valid(Loaded)
  BY LoadedFacts
<1>2. Loaded.revision \in Nat /\ Loaded.entries \in [Items -> Entry]
  BY <1>1 DEF Docs
<1>3. Change(i, e) \in [Items -> Entry]
  BY <1>2 DEF Change
<1>4. d \in Docs
  BY <1>2, <1>3 DEF Docs
<1>5. d.entries = Change(i, e)
  OBVIOUS
<1>6. \A j \in Items : Change(i, e)[j] = IF j = i THEN e ELSE Loaded.entries[j]
  BY <1>2 DEF Change
<1>7. Valid(d)
  BY <1>1, <1>5, <1>6 DEF Valid
<1> HIDE DEF d
<1>8. d.entries[i] = e
  BY <1>5, <1>6
<1>9. \A j \in Items : j # i => d.entries[j] = Loaded.entries[j]
  BY <1>5, <1>6
<1>10. /\ d \in Docs /\ Valid(d)
       /\ d.entries[i] = e
       /\ \A j \in Items : j # i => d.entries[j] = Loaded.entries[j]
  BY <1>4, <1>7, <1>8, <1>9
<1> QED
  BY <1>10 DEF d

\* Enqueue prepares a valid document.
LEMMA EnqueuePrepares ==
  ASSUME TypeOK, ValidInv, NEW w \in Workers, NEW i \in Items, Enqueue(w, i)
  PROVE  Prepared
<1> DEFINE e == EntryIn("queued", NoToken, "none")
<1>1. e \in Entry /\ EntryValid(e)
  BY Facts DEF EntryIn, Entry, NoToken, EntryValid
<1>2. primary # Torn /\ pc = "idle" /\ Loaded.entries[i].state = "missing"
  BY DEF Enqueue, Ready
<1>3. doc' = [revision |-> Loaded.revision + 1, entries |-> Change(i, e)]
  BY DEF Enqueue, Mutate
<1>4. call' = [op |-> "enqueue", by |-> w, tok |-> NoToken, result |-> NoResult]
  BY DEF Enqueue, Mutate
<1>5. call' \in Calls /\ call'.op = "enqueue" /\ call'.tok = 0
  BY <1>4, Facts DEF Calls, NoToken
<1>6. pc' = "rotate" /\ UNCHANGED <<files, claims, history, bounds>>
  BY DEF Enqueue, Mutate
<1> HIDE DEF e
<1>7. /\ doc' \in Docs /\ Valid(doc')
      /\ doc'.entries[i] = e
      /\ \A j \in Items : j # i => doc'.entries[j] = Loaded.entries[j]
  BY <1>1, <1>2, <1>3, ChangeFacts
<1> QED
  BY <1>2, <1>5, <1>6, <1>7 DEF Prepared, TypeOK, claims

\* Claim prepares a valid document.
LEMMA ClaimPrepares ==
  ASSUME TypeOK, ValidInv, NEW w \in Workers, NEW i \in Items, Claim(w, i)
  PROVE  Prepared
<1> DEFINE e == EntryIn("claimed", used + 1, "none")
<1>0. used \in Nat /\ used + 1 \in Tokens /\ used + 1 \in 0..MaxClaims
  BY Facts DEF Claim, TypeOK, Tokens
<1>e. e = [state |-> "claimed", tok |-> used + 1, result |-> NoResult,
           error |-> "none"]
  BY DEF EntryIn
<1>t. used + 1 # 0
  BY <1>0
<1>1. e \in Entry /\ EntryValid(e)
  <2>1. e \in Entry
    BY <1>0, <1>e DEF Entry
  <2>2. e.state = "claimed" /\ e.tok = used + 1 /\ e.result = NoResult
        /\ e.error = "none"
    BY <1>e
  <2> HIDE DEF e
  <2>3. EntryValid(e)
    BY <2>2, <1>t DEF EntryValid, NoToken
  <2> QED
    BY <2>1, <2>3
<1>2. primary # Torn /\ pc = "idle" /\ Loaded.entries[i].state = "queued"
  BY DEF Claim, Ready
<1>3. doc' = [revision |-> Loaded.revision + 1, entries |-> Change(i, e)]
  BY DEF Claim, Mutate
<1>4. call' = [op |-> "claim", by |-> w, tok |-> used + 1, result |-> NoResult]
  BY DEF Claim, Mutate
<1>5. call' \in Calls /\ call'.op = "claim" /\ call'.tok = used + 1
  BY <1>0, <1>4 DEF Calls
<1>6. pc' = "rotate" /\ UNCHANGED <<files, held, ended, old, history, bounds>>
  BY DEF Claim, Mutate
<1>7. /\ used' = used + 1
      /\ claimOf' = [claimOf EXCEPT ![used + 1] = [item |-> i, by |-> w]]
  BY DEF Claim
<1>8. /\ claimOf' \in [Tokens -> Claims]
      /\ \A t \in Tokens : t <= used => claimOf'[t] = claimOf[t]
  BY <1>0, <1>7 DEF TypeOK, Claims, Tokens
<1> HIDE DEF e
<1>9. /\ doc' \in Docs /\ Valid(doc')
      /\ doc'.entries[i] = e
      /\ \A j \in Items : j # i => doc'.entries[j] = Loaded.entries[j]
  BY <1>1, <1>2, <1>3, ChangeFacts
<1>10. \A j \in Items : Loaded.entries[j].state = "completed" =>
                          doc'.entries[j] = Loaded.entries[j]
  BY <1>2, <1>9
<1>11. used' \in 0..MaxClaims /\ used <= used' /\ call'.tok <= used'
       /\ call'.tok # NoToken
  BY <1>0, <1>5, <1>7 DEF NoToken
<1> QED
  BY <1>2, <1>5, <1>6, <1>8, <1>9, <1>10, <1>11 DEF Prepared

\* The entry of a worker whose claim stands is there, and its token is in use.
LEMMA ClaimFacts ==
  ASSUME TypeOK, ValidInv, MadeInv, primary # Torn, NEW w \in Workers,
         AssertClaim(w)
  PROVE  /\ held[w] \in Tokens /\ held[w] # NoToken /\ held[w] <= used
         /\ ItemOf(w) \in Items
         /\ EntryOf(w) = Loaded.entries[ItemOf(w)]
         /\ EntryOf(w) \in Entry /\ EntryValid(EntryOf(w))
         /\ EntryOf(w).tok = held[w]
<1>1. held[w] \in Tokens /\ held[w] # NoToken /\ held[w] <= used
      /\ EntryOf(w).tok = held[w]
  BY Facts DEF TypeOK, MadeInv, AssertClaim, Tokens, NoToken
<1>2. ItemOf(w) \in Items
  BY <1>1 DEF TypeOK, ItemOf, Claims
<1>3. Loaded \in Docs /\ Valid(Loaded)
  BY LoadedFacts
<1>4. EntryOf(w) = Loaded.entries[ItemOf(w)]
  BY DEF EntryOf
<1>5. Loaded.entries[ItemOf(w)] \in Entry
  BY <1>2, <1>3 DEF Docs
<1>6. EntryValid(Loaded.entries[ItemOf(w)])
  BY <1>2, <1>3 DEF Valid
<1> QED
  BY <1>1, <1>2, <1>4, <1>5, <1>6

\* Complete prepares a valid document.
LEMMA CompletePrepares ==
  ASSUME TypeOK, ValidInv, MadeInv, NEW w \in Workers, NEW r \in Results,
         Complete(w, r)
  PROVE  Prepared
<1> DEFINE e == [EntryOf(w) EXCEPT !.state = "completed", !.result = r]
<1>1. primary # Torn /\ pc = "idle" /\ AssertClaim(w)
      /\ EntryOf(w).state = "claimed"
  BY DEF Complete, Ready
<1>2. /\ held[w] \in Tokens /\ held[w] # NoToken /\ held[w] <= used
      /\ ItemOf(w) \in Items
      /\ EntryOf(w) = Loaded.entries[ItemOf(w)]
      /\ EntryOf(w) \in Entry /\ EntryValid(EntryOf(w))
      /\ EntryOf(w).tok = held[w]
  BY <1>1, ClaimFacts
<1>3. /\ e \in Entry /\ e.state = "completed" /\ e.tok = held[w]
      /\ e.result = r /\ e.error = EntryOf(w).error
  BY <1>2 DEF Entry
<1>4. EntryValid(e)
  BY <1>1, <1>2, <1>3, Facts DEF EntryValid
<1>5. doc' = [revision |-> Loaded.revision + 1,
              entries |-> Change(ItemOf(w), e)]
  BY DEF Complete, Mutate
<1>6. call' = [op |-> "complete", by |-> w, tok |-> held[w], result |-> r]
  BY DEF Complete, Mutate
<1>7. /\ call' \in Calls /\ call'.op = "complete" /\ call'.tok = held[w]
      /\ call'.result = r /\ call'.result # NoResult
  BY <1>2, <1>6, Facts DEF Calls, TypeOK
<1>8. pc' = "rotate" /\ UNCHANGED <<files, claims, history, bounds>>
  BY DEF Complete, Mutate
<1> HIDE DEF e
<1>9. /\ doc' \in Docs /\ Valid(doc')
      /\ doc'.entries[ItemOf(w)] = e
      /\ \A j \in Items : j # ItemOf(w) => doc'.entries[j] = Loaded.entries[j]
  BY <1>1, <1>2, <1>3, <1>4, <1>5, ChangeFacts
<1>10. \A j \in Items : Loaded.entries[j].state = "completed" =>
                          doc'.entries[j] = Loaded.entries[j]
  BY <1>1, <1>2, <1>9
<1>11. claimOf'[call'.tok].item = ItemOf(w)
  BY <1>7, <1>8 DEF ItemOf, claims
<1>12. /\ doc'.entries[claimOf'[call'.tok].item].state = "completed"
       /\ doc'.entries[claimOf'[call'.tok].item].tok = call'.tok
       /\ doc'.entries[claimOf'[call'.tok].item].result = call'.result
  BY <1>3, <1>7, <1>9, <1>11
<1> QED
  BY <1>1, <1>2, <1>7, <1>8, <1>9, <1>10, <1>12 DEF Prepared, TypeOK, claims

\* Fail prepares a valid document.
LEMMA FailPrepares ==
  ASSUME TypeOK, ValidInv, MadeInv, NEW w \in Workers, NEW b \in BOOLEAN,
         Fail(w, b)
  PROVE  Prepared
<1> DEFINE why == IF b THEN "retryable" ELSE "permanent"
           e == [EntryOf(w) EXCEPT !.state = "failed", !.error = why]
<1>1. primary # Torn /\ pc = "idle" /\ AssertClaim(w)
      /\ EntryOf(w).state = "claimed"
  BY DEF Fail, Ready
<1>2. /\ held[w] \in Tokens /\ held[w] # NoToken /\ held[w] <= used
      /\ ItemOf(w) \in Items
      /\ EntryOf(w) = Loaded.entries[ItemOf(w)]
      /\ EntryOf(w) \in Entry /\ EntryValid(EntryOf(w))
      /\ EntryOf(w).tok = held[w]
  BY <1>1, ClaimFacts
<1>w. why \in {"retryable", "permanent"}
  OBVIOUS
<1> HIDE DEF why
<1>3. /\ e \in Entry /\ e.state = "failed" /\ e.tok = held[w]
      /\ e.result = EntryOf(w).result /\ e.error = why
  BY <1>2, <1>w DEF Entry
<1>4. EntryValid(e)
  BY <1>1, <1>2, <1>3, <1>w DEF EntryValid
<1>5. doc' = [revision |-> Loaded.revision + 1,
              entries |-> Change(ItemOf(w), e)]
  BY DEF Fail, Mutate, why
<1>6. call' = [op |-> "fail", by |-> w, tok |-> held[w], result |-> NoResult]
  BY DEF Fail, Mutate
<1>7. call' \in Calls /\ call'.op = "fail" /\ call'.tok = held[w]
  BY <1>6, Facts DEF Calls, TypeOK
<1>8. pc' = "rotate" /\ UNCHANGED <<files, claims, history, bounds>>
  BY DEF Fail, Mutate
<1> HIDE DEF e
<1>9. /\ doc' \in Docs /\ Valid(doc')
      /\ doc'.entries[ItemOf(w)] = e
      /\ \A j \in Items : j # ItemOf(w) => doc'.entries[j] = Loaded.entries[j]
  BY <1>1, <1>2, <1>3, <1>4, <1>5, ChangeFacts
<1>10. \A j \in Items : Loaded.entries[j].state = "completed" =>
                          doc'.entries[j] = Loaded.entries[j]
  BY <1>1, <1>2, <1>9
<1> QED
  BY <1>1, <1>2, <1>7, <1>8, <1>9, <1>10 DEF Prepared, TypeOK, claims

\* Resume prepares a valid document.
LEMMA ResumePrepares ==
  ASSUME TypeOK, ValidInv, NEW w \in Workers, ResumeAny(w)
  PROVE  Prepared
<1>1. PICK candidates \in {{i} : i \in Items} \cup {Items},
           includeFailed \in BOOLEAN, force \in {FALSE, MayForce} :
        Resume(w, candidates, includeFailed, force)
  BY DEF ResumeAny
<1> DEFINE chosen == {i \in candidates : Resumable(w, Loaded.entries[i],
                                                   includeFailed, force)}
           fresh(i) == EntryIn("queued", NoToken, Loaded.entries[i].error)
           ents == [i \in Items |-> IF i \in chosen THEN fresh(i)
                                    ELSE Loaded.entries[i]]
<1>2. primary # Torn /\ pc = "idle" /\ pc' = "rotate"
      /\ doc' = [revision |-> Loaded.revision + 1, entries |-> ents]
      /\ call' = [op |-> "resume", by |-> w, tok |-> NoToken,
                  result |-> NoResult]
      /\ UNCHANGED <<files, claims, history, bounds>>
  BY <1>1 DEF Resume, Mutate, Ready
<1>3. call' \in Calls /\ call'.op = "resume" /\ call'.tok = 0
  <2> HIDE DEF ents
  <2>1. call' = [op |-> "resume", by |-> w, tok |-> 0, result |-> NoResult]
    BY <1>2 DEF NoToken
  <2> QED
    BY <2>1, Facts DEF Calls
<1>4. Loaded \in Docs /\ Valid(Loaded)
  BY <1>2, LoadedFacts
<1>5. Loaded.revision \in Nat /\ Loaded.entries \in [Items -> Entry]
  BY <1>4 DEF Docs
<1>6. \A i \in chosen : Loaded.entries[i].state \in {"failed", "claimed"}
  BY DEF Resumable
<1>7. ASSUME NEW i \in Items
      PROVE  fresh(i) \in Entry /\ EntryValid(fresh(i))
  <2>1. Loaded.entries[i].error \in {"none", "retryable", "permanent"}
    BY <1>5 DEF Entry
  <2>2. fresh(i) = [state |-> "queued", tok |-> 0, result |-> NoResult,
                    error |-> Loaded.entries[i].error]
    BY DEF EntryIn, NoToken
  <2>3. fresh(i) \in Entry
    BY <2>1, <2>2, Facts DEF Entry
  <2>4. fresh(i).state = "queued" /\ fresh(i).tok = 0
        /\ fresh(i).result = NoResult
    BY <2>2
  <2> HIDE DEF fresh
  <2>5. EntryValid(fresh(i))
    BY <2>4 DEF EntryValid, NoToken
  <2> QED
    BY <2>3, <2>5
<1> HIDE DEF fresh, chosen
<1>8. ents \in [Items -> Entry]
  BY <1>5, <1>7
<1>9. \A i \in Items : ents[i] = IF i \in chosen THEN fresh(i)
                                  ELSE Loaded.entries[i]
  OBVIOUS
<1> HIDE DEF ents
<1>10. doc' \in Docs /\ doc'.entries = ents
  BY <1>2, <1>5, <1>8 DEF Docs
<1>11. Valid(doc')
  BY <1>4, <1>7, <1>9, <1>10 DEF Valid
<1>12. \A i \in Items : Loaded.entries[i].state = "completed" =>
                          doc'.entries[i] = Loaded.entries[i]
  BY <1>6, <1>9, <1>10
<1> QED
  BY <1>2, <1>3, <1>10, <1>11, <1>12 DEF Prepared, TypeOK, claims

-----------------------------------------------------------------------------
(***************************************************************************)
(* Every step, with the operations that write seen as one.                 *)
(***************************************************************************)
\* What a step of the specification is.
LEMMA Kinds ==
  ASSUME TypeOK, ValidInv, MadeInv, [Next]_vars
  PROVE  \/ Prepared
         \/ RecoverPrimary
         \/ \E w \in Workers, r \in Results : CompleteAgain(w, r)
         \/ \E w \in Workers : LetGo(w)
         \/ \E w \in Workers : Die(w)
         \/ Rotate \/ Replace \/ Reply
         \/ CommandDies
         \/ \E t \in Tokens : Age(t)
         \/ Corrupt
         \/ UNCHANGED vars
  BY EnqueuePrepares, ClaimPrepares, CompletePrepares, FailPrepares,
     ResumePrepares DEF Next, Save

\* The initial state satisfies the invariant.
LEMMA InitInv == Init => IInv
<1> SUFFICES ASSUME Init PROVE IInv
  OBVIOUS
<1>1. Claims # {}
  <2>1. PICK i \in Items, w \in Workers : TRUE
    BY QueueAssumption
  <2>2. [item |-> i, by |-> w] \in Claims
    BY DEF Claims
  <2> QED
    BY <2>2
<1>2. (CHOOSE c \in Claims : TRUE) \in Claims
  BY <1>1
<1>3. TypeOK
  BY <1>2, EmptyType, NoCallType, Names, Facts DEF Init, TypeOK, NoToken
<1>4. ValidInv
  BY EmptyType, Facts DEF Init, ValidInv
<1>5. MadeInv
  BY DEF Init, MadeInv, NoToken
<1>6. CompletedInv
  BY Facts DEF Init, CompletedInv
<1> QED
  BY <1>3, <1>4, <1>5, <1>6 DEF IInv

-----------------------------------------------------------------------------
\* Every step keeps the types.
LEMMA TypeStep ==
  ASSUME TypeOK, ValidInv, MadeInv, [Next]_vars
  PROVE  TypeOK'
<1> USE Facts, Names
<1>1. CASE Prepared
  BY <1>1 DEF Prepared, TypeOK, files, history, bounds
<1>2. CASE RecoverPrimary
  <2>1. previous \in Docs /\ previous.revision \in Nat
    BY <1>2 DEF RecoverPrimary, TypeOK, Docs
  <2> QED
    BY <1>2, <2>1 DEF RecoverPrimary, TypeOK, mutation, claims, bounds
<1>3. ASSUME NEW w \in Workers, NEW r \in Results, CompleteAgain(w, r)
      PROVE  TypeOK'
  <2>1. held[w] \in Tokens
    BY <1>3 DEF CompleteAgain, AssertClaim, TypeOK, Tokens, NoToken
  <2> QED
    BY <1>3, <2>1 DEF CompleteAgain, TypeOK, files, mutation, claims, bounds
<1>4. ASSUME NEW w \in Workers, LetGo(w)
      PROVE  TypeOK'
  BY <1>4 DEF LetGo, TypeOK, NoToken, files, mutation, history, bounds
<1>5. ASSUME NEW w \in Workers, Die(w)
      PROVE  TypeOK'
  <2>1. Made(w) \subseteq Tokens
    BY DEF Made, TypeOK, Tokens
  <2>2. pc' \in PCs /\ call' \in Calls /\ doc' \in Docs
    BY <1>5, EmptyType, NoCallType DEF Die, TypeOK, mutation
  <2> QED
    BY <1>5, <2>1, <2>2 DEF Die, TypeOK, NoToken, files, history
<1>6. CASE Rotate
  BY <1>6 DEF Rotate, TypeOK, claims, history, bounds
<1>7. CASE Replace
  BY <1>7 DEF Replace, TypeOK, claims, history, bounds
<1>8. CASE Reply
  <2>1. doc.revision \in Nat /\ call.tok \in 0..MaxClaims /\ call.by \in Workers
        /\ call.result \in Results \cup {NoResult}
    BY DEF TypeOK, Docs, Calls
  <2>2. call.op = "complete" => call.tok \in Tokens /\ call.result \in Results
    BY <1>8, <2>1 DEF Reply, MadeInv, Tokens, NoToken
  <2>3. call.op = "claim" => call.tok \in Tokens
    BY <1>8, <2>1 DEF Reply, MadeInv, Tokens, NoToken
  <2>4. accepted' \subseteq (Tokens \X Results)
    BY <1>8, <2>2 DEF Reply, TypeOK
  <2>5. held' \in [Workers -> 0..MaxClaims]
    BY <1>8, <2>1 DEF Reply, TypeOK, NoToken
  <2>6. ended' \subseteq Tokens
    BY <1>8, <2>3 DEF Reply, TypeOK
  <2> QED
    BY <1>8, <2>1, <2>4, <2>5, <2>6, EmptyType, NoCallType
       DEF Reply, TypeOK, files, bounds
<1>9. CASE CommandDies
  <2>1. call.op = "claim" => call.tok \in Tokens
    BY <1>9 DEF CommandDies, MadeInv, TypeOK, Calls, Tokens, NoToken
  <2> QED
    BY <1>9, <2>1, EmptyType, NoCallType
       DEF CommandDies, TypeOK, files, history
<1>10. ASSUME NEW t \in Tokens, Age(t)
       PROVE  TypeOK'
  BY <1>10 DEF Age, TypeOK, files, mutation, history, bounds
<1>11. CASE Corrupt
  BY <1>11 DEF Corrupt, TypeOK, mutation, claims, history
<1>12. CASE UNCHANGED vars
  BY <1>12 DEF TypeOK, vars, files, mutation, claims, history, bounds
<1> QED
  BY <1>1, <1>2, <1>3, <1>4, <1>5, <1>6, <1>7, <1>8, <1>9, <1>10, <1>11,
     <1>12, Kinds

\* Every document written or kept is valid.
LEMMA ValidStep ==
  ASSUME TypeOK, ValidInv, MadeInv, [Next]_vars
  PROVE  ValidInv'
<1> USE Facts, EmptyType
<1>1. CASE Prepared
  BY <1>1 DEF Prepared, ValidInv, Valid, EntryValid, files
<1>2. CASE RecoverPrimary
  BY <1>2 DEF RecoverPrimary, ValidInv, Valid, EntryValid, TypeOK, mutation
<1>3. ASSUME NEW w \in Workers, NEW r \in Results, CompleteAgain(w, r)
      PROVE  ValidInv'
  BY <1>3 DEF CompleteAgain, ValidInv, Valid, EntryValid, files, mutation
<1>4. ASSUME NEW w \in Workers, LetGo(w)
      PROVE  ValidInv'
  BY <1>4 DEF LetGo, ValidInv, Valid, EntryValid, files, mutation
<1>5. ASSUME NEW w \in Workers, Die(w)
      PROVE  ValidInv'
  BY <1>5 DEF Die, ValidInv, Valid, EntryValid, files, mutation
<1>6. CASE Rotate
  BY <1>6 DEF Rotate, ValidInv, Valid, EntryValid, TypeOK
<1>7. CASE Replace
  BY <1>7 DEF Replace, ValidInv, Valid, EntryValid
<1>8. CASE Reply
  BY <1>8 DEF Reply, ValidInv, Valid, EntryValid, files
<1>9. CASE CommandDies
  BY <1>9 DEF CommandDies, ValidInv, Valid, EntryValid, files
<1>10. ASSUME NEW t \in Tokens, Age(t)
       PROVE  ValidInv'
  BY <1>10 DEF Age, ValidInv, Valid, EntryValid, files, mutation
<1>11. CASE Corrupt
  BY <1>11 DEF Corrupt, ValidInv, Valid, EntryValid, mutation
<1>12. CASE UNCHANGED vars
  BY <1>12 DEF ValidInv, Valid, EntryValid, vars, files, mutation
<1> QED
  BY <1>1, <1>2, <1>3, <1>4, <1>5, <1>6, <1>7, <1>8, <1>9, <1>10, <1>11,
     <1>12, Kinds

\* Tokens in use stay tokens made.
LEMMA MadeStep ==
  ASSUME TypeOK, ValidInv, MadeInv, [Next]_vars
  PROVE  MadeInv'
<1> USE Facts
<1>0. /\ used \in 0..MaxClaims /\ used \in Nat
      /\ \A w \in Workers : held[w] \in 0..MaxClaims
      /\ \A a \in accepted : a[1] \in Tokens
  BY DEF TypeOK
<1>1. CASE Prepared
  <2>1. /\ used' \in Nat /\ used <= used' /\ UNCHANGED <<held, accepted>>
        /\ call'.tok \in 0..MaxClaims
    BY <1>1 DEF Prepared, history, Calls
  <2>2. \A w \in Workers : held'[w] <= used'
    BY <1>0, <2>1 DEF MadeInv
  <2>3. \A a \in accepted' : a[1] <= used'
    BY <1>0, <2>1 DEF MadeInv, Tokens
  <2> QED
    BY <1>1, <2>2, <2>3 DEF Prepared, MadeInv
<1>2. CASE RecoverPrimary
  BY <1>2 DEF RecoverPrimary, MadeInv, mutation, claims
<1>3. ASSUME NEW w \in Workers, NEW r \in Results, CompleteAgain(w, r)
      PROVE  MadeInv'
  BY <1>3 DEF CompleteAgain, MadeInv, mutation, claims
<1>4. ASSUME NEW w \in Workers, LetGo(w)
      PROVE  MadeInv'
  BY <1>0, <1>4 DEF LetGo, MadeInv, mutation, history, TypeOK, NoToken
<1>5. ASSUME NEW w \in Workers, Die(w)
      PROVE  MadeInv'
  <2>1. \A v \in Workers : held'[v] <= used'
    BY <1>0, <1>5 DEF Die, MadeInv, TypeOK, NoToken
  <2> QED
    BY <1>5, <2>1 DEF Die, MadeInv, mutation, history
<1>6. CASE Rotate
  BY <1>6 DEF Rotate, MadeInv, claims, history
<1>7. CASE Replace
  BY <1>7 DEF Replace, MadeInv, claims, history
<1>8. CASE Reply
  <2>1. call.tok <= used /\ call.by \in Workers
    BY <1>8 DEF Reply, MadeInv, TypeOK, Calls
  <2>2. \A v \in Workers : held'[v] <= used'
    BY <1>0, <1>8, <2>1 DEF Reply, MadeInv, TypeOK, NoToken
  <2>3. \A a \in accepted' : a[1] <= used'
    BY <1>8, <2>1 DEF Reply, MadeInv
  <2> QED
    BY <1>8, <2>2, <2>3 DEF Reply, MadeInv
<1>9. CASE CommandDies
  BY <1>9 DEF CommandDies, MadeInv, history
<1>10. ASSUME NEW t \in Tokens, Age(t)
       PROVE  MadeInv'
  BY <1>10 DEF Age, MadeInv, mutation, history
<1>11. CASE Corrupt
  BY <1>11 DEF Corrupt, MadeInv, mutation, claims, history
<1>12. CASE UNCHANGED vars
  BY <1>12 DEF MadeInv, vars, mutation, claims, history
<1> QED
  BY <1>1, <1>2, <1>3, <1>4, <1>5, <1>6, <1>7, <1>8, <1>9, <1>10, <1>11,
     <1>12, Kinds

\* A completed entry is neither changed nor forgotten.
LEMMA CompletedStep ==
  ASSUME IInv, [Next]_vars
  PROVE  CompletedInv'
<1> USE Facts DEF IInv
<1> SUFFICES ASSUME corruptions' = 0 PROVE CompletedInv'
  BY DEF CompletedInv
<1>0. /\ \A a \in accepted : a[1] \in Tokens /\ a[1] <= used
                               /\ claimOf[a[1]].item \in Items
      /\ doc \in Docs /\ doc # NoDoc /\ doc # Torn
  BY DEF TypeOK, MadeInv, Claims
<1>1. CASE Prepared
  <2>1. corruptions = 0 /\ Loaded' = Loaded /\ UNCHANGED <<primary, accepted>>
    BY <1>1 DEF Prepared, bounds, files, Loaded, history
  <2>2. \A a \in accepted : claimOf'[a[1]] = claimOf[a[1]]
    BY <1>0, <1>1 DEF Prepared
  <2> QED
    BY <1>1, <2>1, <2>2 DEF Prepared, CompletedInv
<1>2. CASE RecoverPrimary
  BY <1>2 DEF RecoverPrimary, CompletedInv, bounds
<1>3. ASSUME NEW w \in Workers, NEW r \in Results, CompleteAgain(w, r)
      PROVE  CompletedInv'
  <2>1. corruptions = 0 /\ Loaded' = Loaded
        /\ UNCHANGED <<primary, pc, call, doc, claimOf>> /\ pc = "idle"
    BY <1>3 DEF CompleteAgain, Ready, bounds, files, Loaded, mutation, claims
  <2>2. /\ Loaded.entries[claimOf[held[w]].item].state = "completed"
        /\ Loaded.entries[claimOf[held[w]].item].tok = held[w]
        /\ Loaded.entries[claimOf[held[w]].item].result = r
        /\ accepted' = accepted \cup {<<held[w], r>>}
    BY <1>3 DEF CompleteAgain, AssertClaim, EntryOf, ItemOf
  <2> QED
    BY <2>1, <2>2 DEF CompletedInv
<1>4. ASSUME NEW w \in Workers, LetGo(w)
      PROVE  CompletedInv'
  BY <1>4 DEF LetGo, CompletedInv, Loaded, files, mutation, history, bounds
<1>5. ASSUME NEW w \in Workers, Die(w)
      PROVE  CompletedInv'
  <2>1. corruptions = 0 /\ Loaded' = Loaded
        /\ UNCHANGED <<primary, accepted, claimOf>>
    BY <1>5 DEF Die, Loaded, files, history
  <2>2. CASE pc' = "idle"
    BY <2>1, <2>2 DEF CompletedInv
  <2>3. CASE UNCHANGED mutation
    BY <2>1, <2>3 DEF CompletedInv, mutation
  <2> QED
    BY <1>5, <2>2, <2>3 DEF Die
<1>6. CASE Rotate
  BY <1>6 DEF Rotate, CompletedInv, Loaded, claims, history, bounds
<1>7. CASE Replace
  <2>1. /\ corruptions = 0 /\ primary' = doc /\ pc = "replace" /\ pc' = "reply"
        /\ UNCHANGED <<call, doc, claimOf, accepted>>
    BY <1>7 DEF Replace, bounds, claims, history
  <2>2. Loaded' = doc
    BY <1>0, <2>1 DEF Loaded
  <2>3. \A i \in Items : Loaded.entries[i].state = "completed" =>
                            doc.entries[i] = Loaded.entries[i]
    BY <2>1 DEF CompletedInv
  <2>4. \A a \in accepted :
          /\ Loaded.entries[claimOf[a[1]].item].state = "completed"
          /\ Loaded.entries[claimOf[a[1]].item].tok = a[1]
          /\ Loaded.entries[claimOf[a[1]].item].result = a[2]
    BY <2>1 DEF CompletedInv
  <2>5. \A a \in accepted :
          /\ doc.entries[claimOf[a[1]].item].state = "completed"
          /\ doc.entries[claimOf[a[1]].item].tok = a[1]
          /\ doc.entries[claimOf[a[1]].item].result = a[2]
    BY <1>0, <2>3, <2>4
  <2> QED
    BY <1>0, <2>1, <2>2, <2>5 DEF CompletedInv
<1>8. CASE Reply
  <2>1. /\ corruptions = 0 /\ primary = doc /\ pc = "reply" /\ pc' = "idle"
        /\ UNCHANGED <<primary, claimOf>>
    BY <1>8 DEF Reply, CompletedInv, bounds, files
  <2>2. Loaded = doc /\ Loaded' = Loaded
    BY <1>0, <2>1 DEF Loaded
  <2>3. call.op = "complete" =>
          /\ Loaded.entries[claimOf[call.tok].item].state = "completed"
          /\ Loaded.entries[claimOf[call.tok].item].tok = call.tok
          /\ Loaded.entries[claimOf[call.tok].item].result = call.result
    BY <2>1, <2>2 DEF CompletedInv
  <2>4. accepted' = IF call.op = "complete"
                    THEN accepted \cup {<<call.tok, call.result>>}
                    ELSE accepted
    BY <1>8 DEF Reply
  <2> QED
    BY <1>0, <2>1, <2>2, <2>3, <2>4 DEF CompletedInv
<1>9. CASE CommandDies
  BY <1>9 DEF CommandDies, CompletedInv, Loaded, files, history
<1>10. ASSUME NEW t \in Tokens, Age(t)
       PROVE  CompletedInv'
  BY <1>10 DEF Age, CompletedInv, Loaded, files, mutation, history, bounds
<1>11. CASE Corrupt
  BY <1>11 DEF Corrupt, TypeOK
<1>12. CASE UNCHANGED vars
  BY <1>12 DEF CompletedInv, Loaded, vars, files, mutation, claims, history,
               bounds
<1> QED
  BY <1>1, <1>2, <1>3, <1>4, <1>5, <1>6, <1>7, <1>8, <1>9, <1>10, <1>11,
     <1>12, Kinds

\* The invariant holds in every reachable state.
THEOREM Inductive == Spec => []IInv
<1>1. Init => IInv
  BY InitInv
<1>2. IInv /\ [Next]_vars => IInv'
  BY TypeStep, ValidStep, MadeStep, CompletedStep DEF IInv
<1> QED
  BY <1>1, <1>2, PTL DEF Spec

\* Every variable of the queue keeps its type.
THEOREM TypeCorrect == Spec => []TypeOK
<1>1. IInv => TypeOK
  BY DEF IInv
<1> QED
  BY <1>1, Inductive, PTL

\* The queue never writes a document that it would refuse to read.
THEOREM AlwaysValid == Spec => []ValidDocument
<1>1. IInv => ValidDocument
  BY DEF IInv, ValidInv, Valid, ValidDocument
<1> QED
  BY <1>1, Inductive, PTL

\* While nothing outside damages queue.json an item has one accepted result.
THEOREM OneResultAccepted == Spec => []OneResult
<1>1. IInv => OneResult
  <2> SUFFICES ASSUME IInv, corruptions = 0,
                      NEW a \in accepted, NEW b \in accepted,
                      claimOf[a[1]].item = claimOf[b[1]].item
               PROVE  a = b
    BY DEF OneResult
  <2>1. a \in Tokens \X Results /\ b \in Tokens \X Results
    BY DEF IInv, TypeOK
  <2>2. a[1] = b[1] /\ a[2] = b[2]
    BY DEF IInv, CompletedInv
  <2> QED
    BY <2>1, <2>2
<1> QED
  BY <1>1, Inductive, PTL

-----------------------------------------------------------------------------
(***************************************************************************)
(* What a damaged queue.json costs.                                        *)
(***************************************************************************)
\* The operations that write, and the call each of them makes.
LEMMA Operations ==
  ASSUME Next, pc = "idle", pc' = "rotate"
  PROVE  /\ doc'.revision = Loaded.revision + 1
         /\ call'.op = "claim" => \E w \in Workers, i \in Items : Claim(w, i)
         /\ call'.op = "resume" => \E w \in Workers : ResumeAny(w)
<1>1. ASSUME NEW op, NEW w, NEW t, NEW r, NEW entries, Mutate(op, w, t, r, entries)
      PROVE  doc'.revision = Loaded.revision + 1 /\ call'.op = op
  BY <1>1 DEF Mutate
<1>2. CASE \E w \in Workers, i \in Items : Claim(w, i)
  <2>1. \E w, t, entries : Mutate("claim", w, t, NoResult, entries)
    BY <1>2 DEF Claim
  <2> QED
    BY <1>1, <1>2, <2>1
<1>3. CASE \E w \in Workers, i \in Items : Enqueue(w, i)
  <2>1. \E w, t, entries : Mutate("enqueue", w, t, NoResult, entries)
    BY <1>3 DEF Enqueue
  <2> QED
    BY <1>1, <2>1
<1>4. CASE \E w \in Workers, r \in Results : Complete(w, r)
  <2>1. \E w, t, r, entries : Mutate("complete", w, t, r, entries)
    BY <1>4 DEF Complete
  <2> QED
    BY <1>1, <2>1
<1>5. CASE \E w \in Workers, b \in BOOLEAN : Fail(w, b)
  <2>1. \E w, t, entries : Mutate("fail", w, t, NoResult, entries)
    BY <1>5 DEF Fail
  <2> QED
    BY <1>1, <2>1
<1>6. CASE \E w \in Workers : ResumeAny(w)
  <2>1. \E w, t, entries : Mutate("resume", w, t, NoResult, entries)
    BY <1>6 DEF ResumeAny, Resume
  <2> QED
    BY <1>1, <1>6, <2>1
<1> QED
  BY <1>2, <1>3, <1>4, <1>5, <1>6 DEF Next, Save, RecoverPrimary, CompleteAgain,
     LetGo, Die, Rotate, Replace, Reply, CommandDies, Age, Corrupt, mutation

\* The revisions the files have.
LEMMA RevisionTypes ==
  ASSUME TypeOK
  PROVE  /\ acked \in Nat /\ corruptions \in Nat /\ doc.revision \in Nat
         /\ primary \in Docs \/ primary = NoDoc \/ primary = Torn
         /\ primary \in Docs => primary.revision \in Nat /\ Loaded = primary
         /\ primary = NoDoc => Loaded.revision = 0
         /\ previous # NoDoc => previous \in Docs /\ previous.revision \in Nat
         /\ doc \in Docs /\ NoDoc # Torn
         /\ NoDoc \notin Docs /\ Torn \notin Docs
<1>1. \A d \in Docs : d.revision \in Nat
  BY DEF Docs
<1>2. Empty.revision = 0
  BY DEF Empty
<1> QED
  BY <1>1, <1>2, Facts DEF TypeOK, Loaded

\* The revisions stay as close to each other as the damages allow.
LEMMA RevisionStep ==
  ASSUME IInv, RevisionInv, [Next]_vars
  PROVE  RevisionInv'
<1> USE RevisionTypes DEF IInv
<1>t. TypeOK' /\ TypeOK
  BY TypeStep
<1>l. Loaded' = IF primary' = NoDoc THEN Empty ELSE primary'
  BY DEF Loaded
<1>1. CASE Prepared
  <2>1. Next
    BY <1>1 DEF Prepared, vars, mutation
  <2>2. doc'.revision = Loaded.revision + 1 /\ pc' = "rotate" /\ primary # Torn
    BY <1>1, <2>1, Operations DEF Prepared
  <2>3. UNCHANGED <<primary, previous, acked, corruptions>> /\ Loaded' = Loaded
    BY <1>1 DEF Prepared, files, history, bounds, Loaded
  <2> QED
    BY <1>t, <2>2, <2>3 DEF RevisionInv
<1>2. CASE RecoverPrimary
  <2>1. /\ pc' = "idle" /\ previous' = previous /\ previous # NoDoc
        /\ primary' = previous /\ corruptions' = corruptions
        /\ acked' <= previous.revision /\ acked' <= acked
    BY <1>2, <1>t DEF RecoverPrimary, mutation, bounds
  <2>2. Loaded' = previous /\ primary' # Torn /\ acked' \in Nat
    BY <1>l, <1>t, <2>1 DEF TypeOK
  <2>3. previous.revision \in Nat /\ corruptions \in Nat /\ previous \in Docs
    BY <1>t, <2>1
  <2> QED
    BY <2>1, <2>2, <2>3 DEF RevisionInv
<1>3. CASE UNCHANGED <<files, mutation, acked, corruptions>>
  BY <1>3 DEF RevisionInv, Loaded, files, mutation
<1>4. CASE /\ pc' = "idle"
           /\ UNCHANGED <<files, acked, corruptions>>
  BY <1>4 DEF RevisionInv, Loaded, files
<1>5. CASE Rotate
  <2>1. /\ pc = "rotate" /\ pc' = "replace"
        /\ UNCHANGED <<primary, doc, acked, corruptions>> /\ Loaded' = Loaded
    BY <1>5 DEF Rotate, history, bounds, Loaded
  <2>2. CASE primary \in Docs
    <3>1. previous' = primary
      BY <1>5, <1>t, <2>2 DEF Rotate
    <3> QED
      BY <1>t, <2>1, <2>2, <3>1 DEF RevisionInv
  <2>3. CASE primary \in {NoDoc, Torn}
    <3>1. previous' = previous
      BY <1>5, <2>3 DEF Rotate
    <3> QED
      BY <1>t, <2>1, <2>3, <3>1 DEF RevisionInv
  <2> QED
    BY <1>t, <2>2, <2>3
<1>6. CASE Replace
  <2>1. /\ pc = "replace" /\ pc' = "reply" /\ primary' = doc
        /\ UNCHANGED <<previous, doc, acked, corruptions>>
    BY <1>6 DEF Replace, history, bounds
  <2>2. Loaded' = doc /\ primary' # Torn
    BY <1>l, <1>t, <2>1
  <2> QED
    BY <1>t, <2>1, <2>2 DEF RevisionInv
<1>7. CASE Reply
  <2>1. /\ pc = "reply" /\ pc' = "idle" /\ acked' = doc.revision
        /\ UNCHANGED <<primary, previous, corruptions>> /\ Loaded' = Loaded
    BY <1>7 DEF Reply, files, bounds, Loaded
  <2> QED
    BY <1>t, <2>1 DEF RevisionInv
<1>8. CASE Corrupt
  <2>1. /\ primary \in Docs /\ primary' = Torn /\ corruptions' = corruptions + 1
        /\ UNCHANGED <<previous, pc, doc, acked>>
    BY <1>8 DEF Corrupt, mutation, history
  <2>2. /\ primary # Torn /\ Loaded = primary /\ primary.revision \in Nat
        /\ acked \in Nat /\ corruptions \in Nat /\ doc.revision \in Nat
        /\ pc = "reply" => primary = doc
    BY <1>t, <2>1 DEF RevisionInv
  <2>3. acked <= doc.revision + corruptions + 1 \/ pc \notin {"rotate", "replace"}
    BY <2>2 DEF RevisionInv
  <2>4. CASE previous # NoDoc
    <3>1. previous.revision \in Nat
      BY <1>t, <2>4
    <3> QED
      BY <2>1, <2>2, <2>3, <2>4, <3>1 DEF RevisionInv
  <2>5. CASE previous = NoDoc
    BY <2>1, <2>2, <2>3, <2>5 DEF RevisionInv
  <2> QED
    BY <2>4, <2>5
<1>9. CASE \E w \in Workers : Die(w)
  BY <1>3, <1>4, <1>9 DEF Die, history, files, mutation
<1> QED
  BY <1>1, <1>2, <1>3, <1>4, <1>5, <1>6, <1>7, <1>8, <1>9, Kinds
     DEF CompleteAgain, LetGo, CommandDies, Age, vars, files, mutation, history, bounds

\* "Recover the queue from the previous complete snapshot": a damaged
\* queue.json costs the last mutation a caller heard of, and every further
\* damage at most one more.
THEOREM DamageCostsLittle == Spec => []LosesLittle
<1>1. Init => RevisionInv
  BY Facts DEF Init, RevisionInv, Loaded, Empty
<1>2. IInv /\ RevisionInv /\ [Next]_vars => RevisionInv'
  BY RevisionStep
<1>3. IInv /\ RevisionInv => LosesLittle
  BY RevisionTypes DEF IInv, RevisionInv, LosesLittle
<1> QED
  BY <1>1, <1>2, <1>3, Inductive, PTL DEF Spec

-----------------------------------------------------------------------------
(***************************************************************************)
(* Whose token it is.                                                      *)
(***************************************************************************)
\* Tokens belong to their makers, and those of living processes are not ended.
LEMMA OwnerStep ==
  ASSUME IInv, OwnerInv, [Next]_vars
  PROVE  OwnerInv'
<1> USE Facts DEF IInv
<1>t. /\ used \in Nat /\ used <= MaxClaims /\ Tokens = 1..MaxClaims
      /\ \A w \in Workers : held[w] \in 0..MaxClaims /\ held[w] <= used
      /\ call.tok \in 0..MaxClaims /\ call.by \in Workers
      /\ ended \subseteq 1..used
      /\ pc # "idle" => call.tok <= used
      /\ pc # "idle" /\ call.op = "claim" => call.tok # 0
  BY DEF TypeOK, MadeInv, Tokens, Calls, NoToken, OwnerInv
<1>1. CASE Prepared
  <2>1. /\ pc = "idle" /\ used' \in Nat /\ used <= used' /\ UNCHANGED <<held, ended>>
        /\ \A t \in Tokens : t <= used => claimOf'[t] = claimOf[t]
    BY <1>1 DEF Prepared
  <2>2. ended' \subseteq 1..used'
    BY <1>t, <2>1
  <2>3. ASSUME NEW w \in Workers, held'[w] # NoToken
        PROVE  /\ claimOf'[held'[w]].by = w
               /\ w \notin CommandLine => held'[w] \notin ended'
    BY <1>t, <2>1, <2>3 DEF OwnerInv, NoToken
  <2>4. ASSUME call'.op = "claim"
        PROVE  claimOf'[call'.tok].by = call'.by /\ call'.tok \notin ended'
    <3>1. PICK w \in Workers, i \in Items : Claim(w, i)
      <4>1. Next
        BY <1>1 DEF Prepared, vars, mutation
      <4> QED
        BY <1>1, <2>4, <4>1, Operations DEF Prepared
    <3>2. /\ call' = [op |-> "claim", by |-> w, tok |-> used + 1, result |-> NoResult]
          /\ claimOf' = [claimOf EXCEPT ![used + 1] = [item |-> i, by |-> w]]
          /\ used < MaxClaims
      BY <3>1 DEF Claim, Mutate
    <3>3. call'.tok = used + 1 /\ call'.by = w
      BY <3>2
    <3>4. claimOf'[used + 1] = [item |-> i, by |-> w]
      BY <1>t, <3>2 DEF TypeOK
    <3>5. claimOf'[call'.tok].by = call'.by
      BY <3>3, <3>4
    <3> QED
      BY <1>t, <2>1, <3>3, <3>5
  <2> QED
    BY <2>2, <2>3, <2>4 DEF OwnerInv
<1>2. CASE UNCHANGED <<pc, call, claimOf, held, ended, used>>
  BY <1>2 DEF OwnerInv
<1>3. ASSUME NEW w \in Workers, LetGo(w)
      PROVE  OwnerInv'
  <2>1. /\ held' = [held EXCEPT ![w] = NoToken]
        /\ UNCHANGED <<pc, call, claimOf, ended, used>>
    BY <1>3 DEF LetGo, mutation
  <2>2. \A v \in Workers : held'[v] = IF v = w THEN NoToken ELSE held[v]
    BY <2>1 DEF TypeOK
  <2> QED
    BY <2>1, <2>2 DEF OwnerInv
<1>4. ASSUME NEW w \in Workers, Die(w)
      PROVE  OwnerInv'
  <2>1. /\ held' = [held EXCEPT ![w] = NoToken]
        /\ ended' = ended \cup Made(w)
        /\ UNCHANGED <<claimOf, used>>
        /\ pc' # "idle" => UNCHANGED <<pc, call>> /\ (pc # "idle" => call.by # w)
    BY <1>4 DEF Die, mutation
  <2>2. \A v \in Workers : held'[v] = IF v = w THEN NoToken ELSE held[v]
    BY <2>1 DEF TypeOK
  <2>3. Made(w) \subseteq 1..used /\ \A t \in Made(w) : claimOf[t].by = w
    BY DEF Made
  <2>4. ended' \subseteq 1..used'
    BY <1>t, <2>1, <2>3
  <2>5. ASSUME NEW v \in Workers, held'[v] # NoToken
        PROVE  /\ claimOf'[held'[v]].by = v
               /\ v \notin CommandLine => held'[v] \notin ended'
    BY <2>1, <2>2, <2>3, <2>5 DEF OwnerInv
  <2>6. ASSUME pc' # "idle", call'.op = "claim"
        PROVE  /\ claimOf'[call'.tok].by = call'.by
               /\ call'.by \notin CommandLine => call'.tok \notin ended'
    BY <2>1, <2>3, <2>6 DEF OwnerInv
  <2> QED
    BY <2>4, <2>5, <2>6 DEF OwnerInv
<1>5. CASE Rotate \/ Replace
  BY <1>5 DEF Rotate, Replace, claims, OwnerInv
<1>6. CASE Reply
  <2>1. /\ pc = "reply" /\ pc' = "idle" /\ UNCHANGED <<claimOf, used>>
    BY <1>6 DEF Reply
  <2>2. CASE call.op = "claim"
    <3>1. /\ \A v \in Workers : held'[v] = IF v = call.by THEN call.tok ELSE held[v]
          /\ ended' = IF call.by \in CommandLine THEN ended \cup {call.tok} ELSE ended
      BY <1>t, <1>6, <2>2 DEF Reply, TypeOK
    <3>2. ended' \subseteq 1..used'
      BY <1>t, <2>1, <2>2, <3>1
    <3>3. ASSUME NEW v \in Workers, v # call.by, held[v] # NoToken
          PROVE  held[v] # call.tok
      BY <2>1, <2>2, <3>3 DEF OwnerInv
    <3> QED
      BY <2>1, <2>2, <3>1, <3>2, <3>3 DEF OwnerInv
  <2>3. CASE call.op # "claim"
    <3>1. /\ ended' = ended
          /\ \A v \in Workers : held'[v] = held[v] \/ held'[v] = NoToken
      BY <1>t, <1>6, <2>3 DEF Reply, TypeOK
    <3> QED
      BY <2>1, <2>3, <3>1 DEF OwnerInv
  <2> QED
    BY <2>2, <2>3
<1>7. CASE CommandDies
  <2>1. /\ pc # "idle" /\ pc' = "idle" /\ call.by \in CommandLine
        /\ UNCHANGED <<claimOf, held, used>>
        /\ ended' = IF call.op = "claim" THEN ended \cup {call.tok} ELSE ended
    BY <1>7 DEF CommandDies
  <2>2. ended' \subseteq 1..used'
    <3>1. call.op = "claim" => call.tok \in 1..used
      BY <1>t, <2>1
    <3> QED
      BY <1>t, <2>1, <3>1
  <2>3. ASSUME NEW v \in Workers, held[v] # NoToken, v \notin CommandLine,
               call.op = "claim"
        PROVE  held[v] # call.tok
    BY <2>1, <2>3 DEF OwnerInv
  <2> QED
    BY <2>1, <2>2, <2>3 DEF OwnerInv
<1> QED
  BY <1>1, <1>2, <1>3, <1>4, <1>5, <1>6, <1>7, Kinds
     DEF RecoverPrimary, CompleteAgain, Age, Corrupt, vars, claims, mutation

\* Where every worker runs the queue in its own process, nobody loses an item
\* it works on to a resume without --force.
THEOREM LiveClaimsKept ==
  ASSUME CommandLine = {}, ~MayForce PROVE Spec => LiveClaimNotStolen
<1> DEFINE Kept == \A i \in Items, t \in Tokens :
       call'.op = "resume" /\ pc = "idle" /\ pc' = "rotate"
         /\ Loaded.entries[i].state = "claimed" /\ Loaded.entries[i].tok = t
         /\ WorksUnder(t)
       => doc'.entries[i] = Loaded.entries[i]
<1>1. Init => OwnerInv
  BY DEF Init, OwnerInv
<1>2. IInv /\ OwnerInv /\ [Next]_vars => OwnerInv'
  BY OwnerStep
<1>3. ASSUME IInv, OwnerInv, [Next]_vars PROVE Kept
  <2> SUFFICES ASSUME NEW i \in Items, NEW t \in Tokens,
                      call'.op = "resume", pc = "idle", pc' = "rotate",
                      Loaded.entries[i].state = "claimed",
                      Loaded.entries[i].tok = t, WorksUnder(t)
               PROVE  doc'.entries[i] = Loaded.entries[i]
    OBVIOUS
  <2>1. t # NoToken /\ t \notin ended
    <3>1. PICK w \in Workers : held[w] = t
      BY DEF WorksUnder
    <3>2. t # NoToken
      BY Facts DEF Tokens, NoToken
    <3> QED
      BY <1>3, <3>1, <3>2 DEF OwnerInv
  <2>2. PICK w \in Workers : ResumeAny(w)
    <3>1. Next
      BY <1>3 DEF vars, mutation
    <3> QED
      BY <3>1, Operations
  <2>3. PICK candidates \in {{j} : j \in Items} \cup {Items},
             includeFailed \in BOOLEAN, force \in {FALSE, MayForce} :
          Resume(w, candidates, includeFailed, force)
    BY <2>2 DEF ResumeAny
  <2>4. ~Resumable(w, Loaded.entries[i], includeFailed, force)
    BY <2>1, <2>3 DEF Resumable, Abandoned
  <2> DEFINE chosen == {j \in candidates : Resumable(w, Loaded.entries[j],
                                                     includeFailed, force)}
             ents == [j \in Items |->
                        IF j \in chosen
                        THEN EntryIn("queued", NoToken, Loaded.entries[j].error)
                        ELSE Loaded.entries[j]]
  <2>5. doc'.entries = ents
    BY <2>3 DEF Resume, Mutate
  <2>6. i \notin chosen
    BY <2>4
  <2> HIDE DEF chosen
  <2> QED
    BY <2>5, <2>6
<1>4. IInv /\ OwnerInv /\ [Next]_vars => [Kept]_vars
  BY <1>3
<1> QED
  BY <1>1, <1>2, <1>4, Inductive, PTL DEF Spec, LiveClaimNotStolen
=============================================================================
