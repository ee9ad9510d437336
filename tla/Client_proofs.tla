--------------------------- MODULE Client_proofs ---------------------------
(***************************************************************************)
(* What the client's cache of redeem material guarantees, and how client   *)
(* and broker agree, for any number of tasks, handles and faults.          *)
(***************************************************************************)
(* CacheInv is about the cache alone; SessionInv relates it to the books   *)
(* of the broker and to the messages between the two.                      *)
(***************************************************************************)
EXTENDS Client, TLAPS

-----------------------------------------------------------------------------
(***************************************************************************)
(* The inductive invariant: the numbers of what is cached and of what was  *)
(* taken are all different, and no larger than the count of what was       *)
(* stored; a call that waits for describe_channel is not an unwrap.        *)
(***************************************************************************)
Shape ==
    /\ DOMAIN cache = Handles
    /\ DOMAIN sent = Tasks
    /\ DOMAIN call = Tasks
    /\ DOMAIN pc = Tasks
    /\ stored \in Nat

Counted ==
    /\ \A h \in Handles : cache[h] # None => cache[h].number \in 1..stored
    /\ \A t \in Tasks : Took(t) => sent[t].number \in 1..stored

CachedApart ==
    \A h, k \in Handles :
        cache[h] # None /\ cache[k] # None /\ cache[h].number = cache[k].number
          => h = k

Describing ==
    \A t \in Tasks : pc[t] = "describe" => call[t].op # "unwrap"

Numbers == Counted /\ CachedApart /\ TakenOnce

CacheInv == Shape /\ Numbers /\ Describing

LEMMA CacheInit == Init => CacheInv
BY DEF Init, CacheInv, Shape, Numbers, Counted, CachedApart, TakenOnce, Took,
       Describing

-----------------------------------------------------------------------------
(***************************************************************************)
(* The three things that happen to the cache: entries go, one is stored    *)
(* under a new number, one moves into a request.                           *)
(***************************************************************************)
NoneTaken ==
    \A t \in Tasks : Took(t)' => Took(t) /\ sent'[t].number = sent[t].number

LEMMA EntriesGo ==
    ASSUME Shape, Numbers, NoneTaken, UNCHANGED stored,
           \A h \in Handles : cache'[h] = None \/ cache'[h] = cache[h]
    PROVE  Numbers'
<1>1. Counted'
  BY Zenon DEF Numbers, Counted, NoneTaken, Shape
<1>2. CachedApart'
  BY Zenon DEF Numbers, CachedApart
<1>3. TakenOnce'
  BY Zenon DEF Numbers, TakenOnce, NoneTaken
<1> QED
  BY <1>1, <1>2, <1>3, Zenon DEF Numbers

LEMMA EntryStored ==
    ASSUME Shape, Numbers, NoneTaken, stored' = stored + 1, NEW x,
           \A h \in Handles : \/ cache'[h] = None
                              \/ cache'[h] = cache[h]
                              \/ h = x /\ cache'[h].number = stored + 1
    PROVE  Numbers'
<1>1. stored \in Nat
  BY Zenon DEF Shape
<1>2. Counted'
  <2>1. \A h \in Handles : cache'[h] # None => cache'[h].number \in 1..stored'
    BY <1>1 DEF Numbers, Counted
  <2>2. \A t \in Tasks : Took(t)' => sent'[t].number \in 1..stored'
    BY <1>1 DEF Numbers, Counted, NoneTaken
  <2> QED
    BY <2>1, <2>2, Zenon DEF Counted
<1>3. CachedApart'
  BY <1>1 DEF Numbers, Counted, CachedApart
<1>4. TakenOnce'
  <2> SUFFICES ASSUME NEW t \in Tasks, Took(t)'
               PROVE  /\ \A u \in Tasks \ {t} :
                            Took(u)' => sent'[u].number # sent'[t].number
                      /\ \A h \in Handles : cache'[h] # None =>
                            cache'[h].number # sent'[t].number
    BY Zenon DEF TakenOnce
  <2>1. Took(t) /\ sent'[t].number = sent[t].number /\ sent[t].number \in 1..stored
    BY Zenon DEF NoneTaken, Numbers, Counted
  <2>2. \A u \in Tasks \ {t} : Took(u)' => sent'[u].number # sent'[t].number
    BY <2>1, Zenon DEF NoneTaken, Numbers, TakenOnce
  <2>3. \A h \in Handles : cache'[h] # None => cache'[h].number # sent'[t].number
    BY <1>1, <2>1 DEF Numbers, TakenOnce
  <2> QED
    BY <2>2, <2>3, Zenon
<1> QED
  BY <1>2, <1>3, <1>4, Zenon DEF Numbers

LEMMA EntryTaken ==
    ASSUME Shape, Numbers, UNCHANGED stored, NEW t \in Tasks, NEW x \in Handles,
           cache[x] # None, cache'[x] = None,
           \A h \in Handles : cache'[h] = None \/ cache'[h] = cache[h],
           Took(t)' => sent'[t].number = cache[x].number,
           \A u \in Tasks \ {t} : sent'[u] = sent[u]
    PROVE  Numbers'
<1>1. \A u \in Tasks \ {t} : /\ Took(u)' <=> Took(u)
                             /\ sent'[u].number = sent[u].number
  BY Zenon DEF Took
<1>2. Counted'
  BY <1>1, Zenon DEF Numbers, Counted, Shape
<1>3. CachedApart'
  BY DEF Numbers, CachedApart
<1>4. TakenOnce'
  <2>1. \A u \in Tasks \ {t} : Took(u) => sent[u].number # cache[x].number
    BY Zenon DEF Numbers, TakenOnce
  <2>2. \A h \in Handles : cache'[h] # None => cache'[h].number # cache[x].number
    BY Zenon DEF Numbers, CachedApart
  <2>3. \A u \in Tasks \ {t} : Took(u) =>
           /\ \A w \in Tasks \ {t, u} :
                 Took(w) => sent[w].number # sent[u].number
           /\ \A h \in Handles :
                 cache'[h] # None => cache'[h].number # sent[u].number
    BY Zenon DEF Numbers, TakenOnce
  <2> QED
    BY <1>1, <2>1, <2>2, <2>3 DEF TakenOnce
<1> QED
  BY <1>2, <1>3, <1>4, Zenon DEF Numbers

-----------------------------------------------------------------------------
(***************************************************************************)
(* One lemma for each kind of step.                                        *)
(***************************************************************************)
LEMMA PurgeGoes ==
    ASSUME DOMAIN cache = Handles
    PROVE  /\ DOMAIN purge_expired = Handles
           /\ \A h \in Handles : \/ purge_expired[h] = None
                                 \/ purge_expired[h] = cache[h]
BY Zenon DEF purge_expired

LEMMA SentOther ==
    ASSUME Shape, NEW t \in Tasks, NEW q, q.op # "unwrap" \/ ~(q.number > 0),
           sent' = [sent EXCEPT ![t] = q]
    PROVE  NoneTaken
BY Zenon DEF Shape, NoneTaken, Took

LEMMA SentSame ==
    ASSUME UNCHANGED sent
    PROVE  NoneTaken
BY Zenon DEF NoneTaken, Took

LEMMA IssueStep ==
    ASSUME CacheInv, NEW t \in Tasks, NEW c,
           CallIssue(t, c) \/ CallDischarge(t, c)
    PROVE  CacheInv'
<1>0. Shape /\ Numbers /\ Describing
  BY Zenon DEF CacheInv
<1>1. /\ c.op \in {"wrap", "mint", "discharge"}
      /\ call' = [call EXCEPT ![t] = c]
      /\ UNCHANGED stored
      /\ cache' = cache \/ cache' = purge_expired
  BY Zenon DEF CallIssue, CallDischarge, Began
<1>2. \/ UNCHANGED sent /\ pc' = [pc EXCEPT ![t] = "describe"]
      \/ /\ sent' = [sent EXCEPT ![t] = IssueRequest(c, None)]
         /\ pc' = [pc EXCEPT ![t] = "sent"]
  BY Zenon DEF CallIssue, CallDischarge, Send
<1>3. NoneTaken
  <2>1. IssueRequest(c, None).op # "unwrap"
    BY <1>1, Zenon DEF IssueRequest
  <2> QED
    BY <1>0, <1>2, <2>1, SentOther, SentSame, Zenon
<1>4. DOMAIN cache' = Handles
      /\ \A h \in Handles : cache'[h] = None \/ cache'[h] = cache[h]
  BY <1>0, <1>1, PurgeGoes, Zenon DEF Shape
<1>5. Numbers'
  BY <1>0, <1>1, <1>3, <1>4, EntriesGo, Zenon
<1>6. Shape'
  BY <1>0, <1>1, <1>2, <1>4, Zenon DEF Shape
<1>7. Describing'
  BY <1>0, <1>1, <1>2, Zenon DEF Shape, Describing
<1> QED
  BY <1>5, <1>6, <1>7, Zenon DEF CacheInv

LEMMA DescribedStep ==
    ASSUME CacheInv, NEW t \in Tasks, Described(t)
    PROVE  CacheInv'
<1>0. Shape /\ Numbers /\ Describing
  BY Zenon DEF CacheInv
<1>1. pc[t] = "describe" /\ UNCHANGED <<cache, call, stored>>
  BY Zenon DEF Described
<1>2. PICK q : \/ UNCHANGED sent /\ pc' = [pc EXCEPT ![t] = "failed"]
               \/ /\ sent' = [sent EXCEPT ![t] = q]
                  /\ pc' = [pc EXCEPT ![t] = "sent"]
                  /\ q.op = call[t].op
  <2> DEFINE q1 == [op |-> call[t].op]
             q2 == IssueRequest(call[t],
                               resolve_v2_unwrap_principal(call[t], channel))
  <2>1. q1.op = call[t].op /\ q2.op = call[t].op
    BY Zenon DEF IssueRequest
  <2>2. Send(t, q1) \/ Send(t, q2) \/ Fail(t)
    BY Zenon DEF Described
  <2> HIDE DEF q1, q2
  <2> QED
    BY <2>1, <2>2, Zenon DEF Send, Fail
<1>3. NoneTaken
  <2>1. call[t].op # "unwrap"
    BY <1>0, <1>1, Zenon DEF Describing
  <2> QED
    BY <1>0, <1>2, <2>1, SentOther, SentSame, Zenon
<1>4. Numbers'
  BY <1>0, <1>1, <1>3, EntriesGo, Zenon
<1>5. Shape' /\ Describing'
  BY <1>0, <1>1, <1>2, Zenon DEF Shape, Describing
<1> QED
  BY <1>4, <1>5, Zenon DEF CacheInv

LEMMA UnwrapStep ==
    ASSUME CacheInv, NEW t \in Tasks, NEW c, NEW x \in Handles,
           CallUnwrap(t, c, x)
    PROVE  CacheInv'
<1> DEFINE kept == purge_expired
           s == handles[x]
           given == IF secrets[s].split THEN Shares(s) ELSE Token(<<s>>)
           supplied == UnwrapRequest(x, given, 0)
           taken == UnwrapRequest(x, ProtoMaterial(kept[x].material),
                                  kept[x].number)
<1>0. Shape /\ Numbers /\ Describing
  BY Zenon DEF CacheInv
<1>1. /\ DOMAIN kept = Handles
      /\ \A h \in Handles : kept[h] = None \/ kept[h] = cache[h]
  BY <1>0, PurgeGoes, Zenon DEF Shape
<1>2. call' = [call EXCEPT ![t] = c] /\ UNCHANGED stored
  BY Zenon DEF CallUnwrap, Began
<1>3. supplied.number = 0 /\ taken.number = kept[x].number
  BY Zenon DEF UnwrapRequest
<1>4. \/ cache' = kept /\ sent' = [sent EXCEPT ![t] = supplied]
                       /\ pc' = [pc EXCEPT ![t] = "sent"]
      \/ cache' = kept /\ UNCHANGED sent /\ pc' = [pc EXCEPT ![t] = "failed"]
      \/ /\ kept[x] # None
         /\ cache' = [kept EXCEPT ![x] = None]
         /\ sent' = [sent EXCEPT ![t] = taken]
         /\ pc' = [pc EXCEPT ![t] = "sent"]
  BY Zenon DEF CallUnwrap, Send, Fail, take_redeem_material
<1> HIDE DEF kept, supplied, taken
<1>5. Numbers'
  <2>1. CASE cache' = kept /\ sent' = [sent EXCEPT ![t] = supplied]
    <3>1. ~(supplied.number > 0)
      BY <1>3
    <3>2. NoneTaken
      BY <1>0, <2>1, <3>1, SentOther, Zenon
    <3> QED
      BY <2>1, <1>0, <1>1, <1>2, <3>2, EntriesGo, Zenon
  <2>2. CASE cache' = kept /\ UNCHANGED sent
    BY <2>2, <1>0, <1>1, <1>2, SentSame, EntriesGo, Zenon
  <2>3. CASE /\ kept[x] # None
             /\ cache' = [kept EXCEPT ![x] = None]
             /\ sent' = [sent EXCEPT ![t] = taken]
    <3>1. kept[x] = cache[x] /\ cache'[x] = None
          /\ \A h \in Handles : cache'[h] = None \/ cache'[h] = cache[h]
      BY <1>1, <2>3, Zenon
    <3>2. /\ sent'[t].number = cache[x].number
          /\ \A u \in Tasks \ {t} : sent'[u] = sent[u]
      BY <1>0, <1>3, <2>3, <3>1, Zenon DEF Shape
    <3> QED
      BY <1>0, <1>2, <2>3, <3>1, <3>2, EntryTaken, Zenon
  <2> QED
    BY <1>4, <2>1, <2>2, <2>3, Zenon
<1>6. Shape'
  BY <1>0, <1>1, <1>2, <1>4, Zenon DEF Shape
<1>7. Describing'
  BY <1>0, <1>2, <1>4, Zenon DEF Shape, Describing
<1> QED
  BY <1>5, <1>6, <1>7, Zenon DEF CacheInv

LEMMA PreloadStep ==
    ASSUME CacheInv, NEW t \in Tasks, NEW c, NEW x \in Handles,
           CallPreload(t, c, x)
    PROVE  CacheInv'
<1> DEFINE s == handles[x]
           material == IF secrets[s].split THEN Shares(s)
                       ELSE Token(BASE64_encode(<<s>>))
           q == [op |-> c.op, handle |-> x]
<1>0. Shape /\ Numbers /\ Describing
  BY Zenon DEF CacheInv
<1>1. /\ DOMAIN purge_expired = Handles
      /\ \A h \in Handles : purge_expired[h] = None \/ purge_expired[h] = cache[h]
  BY <1>0, PurgeGoes, Zenon DEF Shape
<1>2. /\ call' = [call EXCEPT ![t] = c]
      /\ pc' = [pc EXCEPT ![t] = "ok"]
      /\ sent' = [sent EXCEPT ![t] = q]
      /\ stored' = stored + 1
      /\ cache' = Remembered(x, material, secrets[s].until, purge_expired)
  BY Zenon DEF CallPreload, Began
<1>3. /\ DOMAIN cache' = Handles
      /\ \A h \in Handles : \/ cache'[h] = None
                            \/ cache'[h] = cache[h]
                            \/ h = x /\ cache'[h].number = stored + 1
  <2> HIDE DEF material, s
  <2> QED
    BY <1>1, <1>2, Zenon DEF Remembered
<1>4. NoneTaken
  <2>1. q.op # "unwrap"
    BY Zenon DEF CallPreload
  <2> HIDE DEF q
  <2> QED
    BY <1>0, <1>2, <2>1, SentOther, Zenon
<1>5. Numbers'
  <2>1. stored' = stored + 1
    BY <1>2, Zenon
  <2> QED
    BY <1>0, <1>3, <1>4, <2>1, EntryStored
<1> HIDE DEF q, material, s
<1>6. Shape'
  BY <1>0, <1>2, <1>3 DEF Shape
<1>7. Describing'
  BY <1>0, <1>2, Zenon DEF Shape, Describing
<1> QED
  BY <1>5, <1>6, <1>7, Zenon DEF CacheInv

LEMMA OnHandleStep ==
    ASSUME CacheInv, NEW t \in Tasks, NEW c, NEW x \in Handles,
           CallOnHandle(t, c, x)
    PROVE  CacheInv'
<1> DEFINE q == [op |-> c.op, handle |-> x, lifecycle |-> c.lifecycle,
                 threshold |-> c.threshold, padded |-> c.padded]
<1>0. Shape /\ Numbers /\ Describing
  BY Zenon DEF CacheInv
<1>1. /\ call' = [call EXCEPT ![t] = c]
      /\ pc' = [pc EXCEPT ![t] = "sent"]
      /\ sent' = [sent EXCEPT ![t] = q]
      /\ UNCHANGED <<cache, stored>>
  BY Zenon DEF CallOnHandle, Began, Send
<1>2. q.op # "unwrap"
  BY Zenon DEF CallOnHandle, HandleOps
<1> HIDE DEF q
<1>3. NoneTaken
  BY <1>0, <1>1, <1>2, SentOther, Zenon
<1>4. Numbers'
  BY <1>0, <1>1, <1>3, EntriesGo, Zenon
<1>5. Shape' /\ Describing'
  BY <1>0, <1>1, Zenon DEF Shape, Describing
<1> QED
  BY <1>4, <1>5, Zenon DEF CacheInv

(***************************************************************************)
(* The steps that send nothing.                                            *)
(***************************************************************************)
LEMMA QuietStep ==
    ASSUME CacheInv, UNCHANGED <<cache, call, sent, stored>>,
           DOMAIN pc' = Tasks,
           \A t \in Tasks : pc'[t] = "describe" => pc[t] = "describe"
    PROVE  CacheInv'
<1>0. Shape /\ Numbers /\ Describing
  BY Zenon DEF CacheInv
<1>1. NoneTaken
  BY SentSame, Zenon
<1>2. Numbers'
  BY <1>0, <1>1, EntriesGo, Zenon
<1>3. Shape' /\ Describing'
  BY <1>0, Zenon DEF Shape, Describing
<1> QED
  BY <1>2, <1>3, Zenon DEF CacheInv

LEMMA AnsweredStep ==
    ASSUME CacheInv, NEW t \in Tasks, Answered(t)
    PROVE  CacheInv'
<1>0. Shape /\ Numbers /\ Describing
  BY Zenon DEF CacheInv
<1>1. \E how \in {"ok", "failed"} : Ended(t, how)
  BY Zenon
     DEF Answered, Refused, IssueAnswered, EndAnswered, RotateAnswered,
         OtherAnswered
<1>2. UNCHANGED <<call, sent>> /\ NoneTaken
  BY <1>1, SentSame, Zenon DEF Ended
<1>3. DOMAIN pc' = Tasks
      /\ \A u \in Tasks : pc'[u] = "describe" => pc[u] = "describe"
  BY <1>0, <1>1, Zenon DEF Ended, Shape
<1>4. Describing'
  BY <1>0, <1>2, <1>3, Zenon DEF Describing
<1>5. CASE Refused(t) \/ OtherAnswered(t)
  <2>1. UNCHANGED <<cache, stored>>
    BY <1>5, Zenon DEF Refused, OtherAnswered
  <2> QED
    BY <2>1, <1>2, <1>3, QuietStep, Zenon
<1>6. CASE EndAnswered(t)
  <2>1. /\ UNCHANGED stored
        /\ cache' = cache \/ cache' = [cache EXCEPT ![sent[t].handle] = None]
    BY <1>6, Zenon DEF EndAnswered
  <2>2. DOMAIN cache' = Handles
        /\ \A h \in Handles : cache'[h] = None \/ cache'[h] = cache[h]
    BY <1>0, <2>1, Zenon DEF Shape
  <2>3. Numbers' /\ Shape'
    BY <1>0, <1>2, <1>3, <2>1, <2>2, EntriesGo, Zenon DEF Shape
  <2> QED
    BY <2>3, <1>4, Zenon DEF CacheInv
<1>7. CASE IssueAnswered(t)
  <2> DEFINE r == reply[t]
             new == Remembered(r.handle, Material(r), r.until, cache)
  <2>1. \/ UNCHANGED <<cache, stored>>
        \/ cache' = new /\ stored' = stored + 1
    BY <1>7, Zenon DEF IssueAnswered
  <2>2. CASE UNCHANGED <<cache, stored>>
    BY <2>2, <1>2, <1>3, QuietStep, Zenon
  <2>3. CASE cache' = new /\ stored' = stored + 1
    <3>1. /\ DOMAIN cache' = Handles
          /\ \A h \in Handles : \/ cache'[h] = None
                                \/ cache'[h] = cache[h]
                                \/ h = r.handle /\ cache'[h].number = stored + 1
      BY <1>0, <2>3, Zenon DEF Remembered, Shape
    <3>2. Numbers'
      BY <1>0, <1>2, <2>3, <3>1, EntryStored
    <3>3. Shape'
      BY <1>0, <1>2, <1>3, <2>3, <3>1 DEF Shape
    <3> QED
      BY <1>4, <3>2, <3>3, Zenon DEF CacheInv
  <2> QED
    BY <2>1, <2>2, <2>3, Zenon
<1>8. CASE RotateAnswered(t)
  <2> DEFINE r == reply[t]
             new == Remembered(r.handle, r.material, r.until, cache)
             old == sent[t].handle
  <2>1. \/ stored' = stored /\ cache' = [cache EXCEPT ![old] = None]
        \/ stored' = stored + 1 /\ cache' = [new EXCEPT ![old] = None]
    BY <1>8, Zenon DEF RotateAnswered
  <2>2. CASE stored' = stored /\ cache' = [cache EXCEPT ![old] = None]
    <3>1. DOMAIN cache' = Handles
          /\ \A h \in Handles : cache'[h] = None \/ cache'[h] = cache[h]
      BY <1>0, <2>2, Zenon DEF Shape
    <3>2. Numbers' /\ Shape'
      BY <1>0, <1>2, <1>3, <2>2, <3>1, EntriesGo, Zenon DEF Shape
    <3> QED
      BY <3>2, <1>4, Zenon DEF CacheInv
  <2>3. CASE stored' = stored + 1 /\ cache' = [new EXCEPT ![old] = None]
    <3>1. /\ DOMAIN cache' = Handles
          /\ \A h \in Handles : \/ cache'[h] = None
                                \/ cache'[h] = cache[h]
                                \/ h = r.handle /\ cache'[h].number = stored + 1
      BY <1>0, <2>3, Zenon DEF Remembered, Shape
    <3>2. Numbers'
      BY <1>0, <1>2, <2>3, <3>1, EntryStored
    <3>3. Shape'
      BY <1>0, <1>2, <1>3, <2>3, <3>1 DEF Shape
    <3> QED
      BY <1>4, <3>2, <3>3, Zenon DEF CacheInv
  <2> QED
    BY <2>1, <2>2, <2>3, Zenon
<1> QED
  BY <1>5, <1>6, <1>7, <1>8, Zenon DEF Answered

LEMMA CacheStep == CacheInv /\ [Next]_vars => CacheInv'
<1> SUFFICES ASSUME CacheInv, [Next]_vars PROVE CacheInv'
  BY Zenon
<1>0. DOMAIN pc = Tasks
  BY Zenon DEF CacheInv, Shape
<1>1. ASSUME NEW t \in Tasks, Call(t)
      PROVE  CacheInv'
  BY <1>1, IssueStep, UnwrapStep, PreloadStep, OnHandleStep, Zenon DEF Call
<1>2. ASSUME NEW t \in Tasks, Serve(t)
      PROVE  CacheInv'
  <2>1. /\ UNCHANGED <<cache, call, sent, stored>>
        /\ pc' = [pc EXCEPT ![t] = IF @ = "sent" THEN "replied" ELSE "lost"]
    BY <1>2, Zenon DEF Serve
  <2>2. DOMAIN pc' = Tasks
        /\ \A u \in Tasks : pc'[u] = "describe" => pc[u] = "describe"
    BY <1>0, <2>1, Zenon
  <2> QED
    BY <2>1, <2>2, QuietStep, Zenon
<1>3. ASSUME NEW t \in Tasks, Lose(t) \/ GiveUp(t)
      PROVE  CacheInv'
  <2>1. /\ UNCHANGED <<cache, call, sent, stored>>
        /\ \E x \in {"lost", "abandoned"} : pc' = [pc EXCEPT ![t] = x]
    BY <1>3, Zenon DEF Lose, GiveUp
  <2>2. DOMAIN pc' = Tasks
        /\ \A u \in Tasks : pc'[u] = "describe" => pc[u] = "describe"
    BY <1>0, <2>1, Zenon
  <2> QED
    BY <2>1, <2>2, QuietStep, Zenon
<1>4. CASE Reconnect \/ Tick \/ Done \/ UNCHANGED vars
  <2>1. UNCHANGED <<cache, call, sent, stored, pc>>
    BY <1>4, Zenon DEF Reconnect, Tick, Done, vars
  <2> QED
    BY <1>0, <2>1, QuietStep, Zenon
<1> QED
  BY <1>1, <1>2, <1>3, <1>4, DescribedStep, AnsweredStep, Zenon DEF Next

-----------------------------------------------------------------------------
(***************************************************************************)
(* For any number of tasks, handles and faults: what was remembered once   *)
(* serves one unwrap_secret_v2 (lib.rs:1087, take_redeem_material).        *)
(***************************************************************************)
THEOREM MaterialTakenOnce == Spec => []TakenOnce
<1>1. CacheInv => TakenOnce
  BY Zenon DEF CacheInv, Numbers
<1> QED
  BY <1>1, CacheInit, CacheStep, PTL DEF Spec

-----------------------------------------------------------------------------
(***************************************************************************)
(* What the broker's books and the tasks' requests and replies say.  A     *)
(* secret is from a caller like the present one, who was allowed to issue  *)
(* it; every handle names a secret.                                        *)
(***************************************************************************)
SecretType ==
    [seal : [lifecycle : Lifecycles, unwrap_principal_id : Opt(Principals),
             issuer : Context],
     until : Nat, split : BOOLEAN,
     used : BOOLEAN, revoked : BOOLEAN, deleted : BOOLEAN]

SameCaller(a, b) ==
    /\ a.auth = b.auth /\ a.principal = b.principal
    /\ a.cert = b.cert /\ a.attestation = b.attestation

IssuedHere(seal) ==
    /\ SameCaller(seal.issuer, channel)
    /\ seal.issuer.auth /\ seal.issuer.principal # None
    /\ seal.lifecycle # "SingleUseUnwrap" => seal.issuer.cert # None

Books ==
    /\ now \in Nat /\ channel \in Context
    /\ secrets \in Seq(SecretType)
    /\ handles \in Seq(Nat)
    /\ \A s \in DOMAIN secrets : IssuedHere(secrets[s].seal)
    /\ \A h \in DOMAIN handles : handles[h] \in DOMAIN secrets

(***************************************************************************)
(* The material of a secret as the cache keeps it, and as a reply has it.  *)
(***************************************************************************)
Stored(s) ==
    IF secrets[s].split THEN Shares(s) ELSE Token(BASE64_encode(<<s>>))

Replied(q, s) ==
    IF q.op = "rotate"
      THEN IF q.threshold > 1 THEN None ELSE Token(BASE64_encode(<<s>>))
      ELSE IssueMaterial(q, s)

(***************************************************************************)
(* A request repeats what its task was called with, asks for a principal   *)
(* that the broker accepts if the client looked at it, and is about a      *)
(* handle that some caller was told.                                       *)
(***************************************************************************)
Principal(c) == IF c.requested = None THEN channel.principal ELSE c.requested

Cleared(c, principal) ==
    IF PrincipalNeeded(c)
      THEN /\ MayIssue(channel, c.lifecycle, principal)
           /\ principal = Principal(c)
      ELSE principal = None

Told(h) == \E u \in Tasks : Names(u) /\ reply[u].handle = h

Asked(t) ==
    /\ sent[t] \in RequestType
    /\ sent[t].op = call[t].op
    /\ sent[t].op \in {"wrap", "mint"} =>
          /\ sent[t] = IssueRequest(call[t], sent[t].principal)
          /\ Cleared(call[t], sent[t].principal)
    /\ sent[t].op \in HandleOps \cup {"unwrap", "preload"} =>
          Told(sent[t].handle)
    /\ sent[t].op \in HandleOps =>
          /\ sent[t].threshold = call[t].threshold
          /\ sent[t].padded = call[t].padded

(***************************************************************************)
(* A reply that names a new handle says what the books say of it.          *)
(***************************************************************************)
Naming == {"wrap", "mint", "rotate", "attenuate"}

Answer(t) ==
    /\ sent[t] # None
    /\ reply[t] \in ReplyType
    /\ reply[t].ok /\ sent[t].op \in Naming => reply[t].handle \in DOMAIN handles
    /\ reply[t].ok /\ sent[t].op \in Naming \ {"attenuate"} =>
          LET s == handles[reply[t].handle]
          IN  /\ reply[t].until = secrets[s].until
              /\ reply[t].material = Replied(sent[t], s)
              /\ secrets[s].split = (sent[t].threshold > 1)
    /\ sent[t].op \in {"wrap", "mint"} =>
          IF reply[t].ok
            THEN secrets[handles[reply[t].handle]].seal.unwrap_principal_id =
                    Principal(call[t])
            ELSE ~PrincipalNeeded(call[t])

(***************************************************************************)
(* How far a task is.                                                      *)
(***************************************************************************)
Phase(t) ==
    /\ pc[t] = "idle" => call[t] = None /\ sent[t] = None
    /\ pc[t] # "idle" => call[t] \in Calls
    /\ pc[t] \in {"idle", "describe"} => sent[t] = None
    /\ pc[t] \in {"idle", "describe", "sent", "abandoned"} => reply[t] = None
    /\ pc[t] = "describe" =>
          \/ call[t].op = "discharge"
          \/ call[t].op \in {"wrap", "mint"} /\ PrincipalNeeded(call[t])
    /\ pc[t] \in {"sent", "abandoned", "replied", "ok"} => sent[t] # None
    /\ pc[t] = "replied" => reply[t] # None
    /\ pc[t] = "ok" => call[t].op = "preload" \/ (reply[t] # None /\ reply[t].ok)
    /\ pc[t] = "failed" /\ sent[t] = None /\ call[t].op \in {"wrap", "mint"}
         /\ ClientPrincipal \in {None, channel.principal}
         => ~MayIssue(channel, call[t].lifecycle, call[t].requested)

TaskInv(t) ==
    /\ Phase(t)
    /\ sent[t] # None => Asked(t)
    /\ reply[t] # None => Answer(t)

(***************************************************************************)
(* No two replies name the same handle, and each handle has its place in   *)
(* the cache.                                                              *)
(***************************************************************************)
NamesHandle(t) ==
    sent[t] # None /\ reply[t] # None /\ reply[t].ok /\ sent[t].op \in Naming

RepliesApart ==
    \A t, u \in Tasks : NamesHandle(t) /\ NamesHandle(u)
                          /\ reply[t].handle = reply[u].handle => t = u

RoomForAll == Len(handles) <= MaxHandles

(***************************************************************************)
(* What the cache holds is what its handle redeems, for as long.           *)
(***************************************************************************)
CacheSound ==
    \A h \in Handles : cache[h] # None =>
        /\ cache[h] \in EntryType
        /\ h \in DOMAIN handles
        /\ cache[h].material = Stored(handles[h])
        /\ cache[h].expires_at = secrets[handles[h]].until

Gone(h) ==
    \E u \in Tasks : \/ Took(u) /\ sent[u].handle = h
                     \/ On(u, {"delete", "revoke", "rotate"}, h)

Present ==
    \A t \in Tasks :
        /\ Names(t)
        /\ call[t].op # "attenuate"
        /\ call[t].op = "rotate" => call[t].threshold = 1
        /\ ~Gone(reply[t].handle)
        /\ now <= secrets[handles[reply[t].handle]].until
        => cache[reply[t].handle] # None

SessionInv ==
    /\ Books
    /\ \A t \in Tasks : TaskInv(t)
    /\ RepliesApart
    /\ RoomForAll
    /\ CacheSound
    /\ Present
    /\ EndedForgotten
    /\ DOMAIN reply = Tasks

-----------------------------------------------------------------------------
(***************************************************************************)
(* What every step respects: secrets and handles are added and keep what   *)
(* they were issued with, the caller stays who it is, a request is never   *)
(* replaced, and an ended call stays as it ended.                          *)
(***************************************************************************)
Grows ==
    /\ \A h \in DOMAIN handles : h \in DOMAIN handles' /\ handles'[h] = handles[h]
    /\ \A s \in DOMAIN secrets :
          /\ s \in DOMAIN secrets'
          /\ secrets'[s].seal = secrets[s].seal
          /\ secrets'[s].until = secrets[s].until
          /\ secrets'[s].split = secrets[s].split

Continues(t) ==
    /\ sent[t] # None => sent'[t] = sent[t]
    /\ reply[t] # None => reply'[t] = reply[t]
    /\ pc[t] = "ok" => pc'[t] = "ok" /\ call'[t] = call[t]

Forward ==
    /\ Grows
    /\ SameCaller(channel', channel)
    /\ now' \in Nat /\ now' >= now
    /\ \A t \in Tasks : Continues(t)

SameTask(t) ==
    /\ pc'[t] = pc[t] /\ call'[t] = call[t]
    /\ sent'[t] = sent[t] /\ reply'[t] = reply[t]

LEMMA ToldIssued ==
    ASSUME SessionInv, NEW h, Told(h)
    PROVE  h \in DOMAIN handles /\ h \in Handles
<1>1. PICK u \in Tasks : Names(u) /\ reply[u].handle = h
  BY Zenon DEF Told
<1>2. TaskInv(u)
  BY Zenon DEF SessionInv
<1>3. /\ call[u].op \in Naming /\ sent[u] # None
      /\ reply[u] # None /\ reply[u].ok
  BY <1>1, <1>2, Zenon DEF TaskInv, Phase, Names, Naming
<1>4. sent[u].op = call[u].op
  BY <1>2, <1>3, Zenon DEF TaskInv, Asked
<1>5. h \in DOMAIN handles
  BY <1>1, <1>2, <1>3, <1>4, Zenon DEF TaskInv, Answer
<1>6. handles \in Seq(Nat) /\ Len(handles) <= MaxHandles
  BY Zenon DEF SessionInv, Books, RoomForAll
<1> QED
  BY <1>5, <1>6, ClientAssumption DEF Handles

LEMMA ToldStays ==
    ASSUME SessionInv, \A t \in Tasks : Continues(t), NEW h, Told(h)
    PROVE  Told(h)'
<1>1. PICK u \in Tasks : Names(u) /\ reply[u].handle = h
  BY Zenon DEF Told
<1>2. reply[u] # None
  <2>1. Phase(u)
    BY Zenon DEF SessionInv, TaskInv
  <2> QED
    BY <1>1, <2>1, Zenon DEF Phase, Names
<1> QED
  BY <1>1, <1>2, Zenon DEF Continues, Told, Names

SameMessages(t) ==
    call'[t] = call[t] /\ sent'[t] = sent[t] /\ reply'[t] = reply[t]

LEMMA MessagesStay ==
    ASSUME SessionInv, Forward, NEW t \in Tasks, SameMessages(t)
    PROVE  /\ sent[t] # None => Asked(t)'
           /\ reply[t] # None => Answer(t)'
<1>1. TaskInv(t)
  BY Zenon DEF SessionInv
<1>2. sent[t] # None => Asked(t)'
  <2> SUFFICES ASSUME sent[t] # None PROVE Asked(t)'
    BY Zenon
  <2>1. Asked(t)
    BY <1>1, Zenon DEF TaskInv
  <2>2. Cleared(call[t], sent[t].principal) =>
           Cleared(call[t], sent[t].principal)'
    BY Zenon
       DEF Cleared, Principal, MayIssue, Forward, SameCaller, SameMessages
  <2>3. Told(sent[t].handle) => Told(sent[t].handle)'
    BY ToldStays, Zenon DEF Forward, SameMessages, Told
  <2> QED
    BY <2>1, <2>2, <2>3, Zenon DEF Asked, SameMessages, Cleared, Told
<1>3. reply[t] # None => Answer(t)'
  <2> SUFFICES ASSUME reply[t] # None PROVE Answer(t)'
    BY Zenon
  <2>1. Answer(t)
    BY <1>1, Zenon DEF TaskInv
  <2>2. \A h \in DOMAIN handles : handles[h] \in DOMAIN secrets
    BY Zenon DEF SessionInv, Books
  <2>3. \A s : Replied(sent[t], s)' = Replied(sent[t], s)
    BY Zenon DEF Replied, SameMessages, IssueMaterial
  <2> QED
    BY <2>1, <2>2, <2>3
       DEF Answer, SameMessages, Forward, Grows, SameCaller, Principal,
           Naming, PrincipalNeeded
<1> QED
  BY <1>2, <1>3, Zenon

LEMMA TaskStays ==
    ASSUME SessionInv, Forward, NEW t \in Tasks, SameTask(t)
    PROVE  TaskInv(t)'
<1>1. Phase(t)'
  BY DEF SessionInv, TaskInv, Phase, SameTask, Forward, SameCaller, MayIssue,
         PrincipalNeeded
<1>2. SameMessages(t)
  BY Zenon DEF SameTask, SameMessages
<1> QED
  BY <1>1, <1>2, MessagesStay, Zenon DEF TaskInv, SameTask

(***************************************************************************)
(* What a step has to show of the cache: entries that come are right, ones *)
(* that go were asked to go or are expired, and nothing comes for a handle *)
(* that callers know, unless they preload it or it has just been told.     *)
(***************************************************************************)
EntryRight(h) ==
    /\ cache[h] \in EntryType
    /\ h \in DOMAIN handles
    /\ cache[h].material = Stored(handles[h])
    /\ cache[h].expires_at = secrets[handles[h]].until

LEMMA CacheStays ==
    ASSUME SessionInv, Forward,
           \A h \in Handles : \/ cache'[h] = None
                              \/ cache'[h] = cache[h]
                              \/ EntryRight(h)'
    PROVE  CacheSound'
<1> SUFFICES ASSUME NEW h \in Handles, cache'[h] # None
             PROVE  EntryRight(h)'
  BY Zenon DEF CacheSound, EntryRight
<1>1. CASE cache'[h] = cache[h]
  <2>1. EntryRight(h)
    BY <1>1, Zenon DEF SessionInv, CacheSound, EntryRight
  <2>2. handles[h] \in DOMAIN secrets
    BY <2>1, Zenon DEF SessionInv, Books, EntryRight
  <2> QED
    BY <1>1, <2>1, <2>2, Zenon DEF EntryRight, Forward, Grows, Stored
<1> QED
  BY <1>1, Zenon

Leaves(h) == cache[h] # None /\ cache'[h] = None
Comes(h) == cache[h] = None /\ cache'[h] # None

LEMMA GoneStays ==
    ASSUME \A t \in Tasks : Continues(t), NEW h, Gone(h)
    PROVE  Gone(h)'
BY Zenon DEF Gone, Continues, Took, On

LEMMA SecretTyped ==
    ASSUME SessionInv, NEW s \in DOMAIN secrets
    PROVE  secrets[s] \in SecretType /\ secrets[s].until \in Nat
<1>1. secrets \in Seq(SecretType)
  BY Zenon DEF SessionInv, Books
<1>2. secrets[s] \in SecretType
  BY <1>1
<1> QED
  BY <1>2, Zenon DEF SecretType

LEMMA PresentStays ==
    ASSUME SessionInv, Forward,
           \A h \in Handles : Leaves(h) =>
              Gone(h)' \/ now' > cache[h].expires_at,
           \A t \in Tasks : Names(t)' =>
              \/ Names(t)
              \/ call'[t].op = "attenuate"
              \/ call'[t].op = "rotate" /\ call'[t].threshold # 1
              \/ Gone(reply[t].handle)'
              \/ cache'[reply'[t].handle] # None
    PROVE  Present'
<1> SUFFICES ASSUME NEW t \in Tasks,
                    Names(t)', call'[t].op # "attenuate",
                    call'[t].op = "rotate" => call'[t].threshold = 1,
                    ~Gone(reply[t].handle)',
                    now' <= secrets'[handles'[reply'[t].handle]].until
             PROVE  cache'[reply'[t].handle] # None
  BY Zenon DEF Present
<1>1. CASE Names(t)
  <2>0. PICK h : h = reply[t].handle
    BY Zenon
  <2>1. Told(h)
    BY <1>1, <2>0, Zenon DEF Told
  <2>2. h \in DOMAIN handles /\ h \in Handles
    BY <2>1, ToldIssued, Zenon
  <2>3. reply[t] # None
    BY <1>1, Zenon DEF SessionInv, TaskInv, Phase, Names
  <2>4. reply'[t] = reply[t] /\ call'[t] = call[t]
    BY <1>1, <2>3, Zenon DEF Forward, Continues, Names
  <2>5. handles[h] \in DOMAIN secrets
    BY <2>2, Zenon DEF SessionInv, Books
  <2>6. handles'[h] = handles[h]
        /\ secrets'[handles[h]].until = secrets[handles[h]].until
    BY <2>2, <2>5, Zenon DEF Forward, Grows
  <2>7. now' <= secrets[handles[h]].until
    BY <2>0, <2>4, <2>6, Zenon
  <2>8. now <= secrets[handles[h]].until
    <3>1. now \in Nat /\ now' \in Nat /\ now' >= now
      BY Zenon DEF SessionInv, Books, Forward
    <3>2. secrets[handles[h]].until \in Nat
      BY <2>5, SecretTyped, Zenon
    <3> QED
      BY <2>7, <3>1, <3>2
  <2>9. ~Gone(h)
    <3>1. Gone(h) => Gone(h)'
      BY GoneStays, Zenon DEF Forward
    <3> QED
      BY <2>0, <2>4, <3>1, Zenon DEF Gone
  <2>10. cache[h] # None
    BY <1>1, <2>0, <2>4, <2>8, <2>9, Zenon DEF SessionInv, Present
  <2>11. ~(now' > cache[h].expires_at)
    <3>1. cache[h].expires_at = secrets[handles[h]].until
      BY <2>2, <2>10, Zenon DEF SessionInv, CacheSound
    <3>2. now' \in Nat /\ secrets[handles[h]].until \in Nat
      BY <2>5, SecretTyped, Zenon DEF Forward
    <3> QED
      BY <2>7, <3>1, <3>2
  <2> QED
    <3>1. ~Gone(h)'
      BY <2>0, <2>4, Zenon DEF Gone
    <3>2. ~Leaves(h)
      BY <2>2, <2>11, <3>1, Zenon
    <3> QED
      BY <2>0, <2>4, <2>10, <3>2, Zenon DEF Leaves
<1>2. CASE ~Names(t)
  BY <1>2, Zenon
<1> QED
  BY <1>1, <1>2, Zenon

LEMMA ForgottenStays ==
    ASSUME SessionInv, Forward,
           \A h \in Handles : Comes(h) =>
              \/ \E u \in Tasks : On(u, {"preload"}, h)'
              \/ ~Told(h),
           \A t \in Tasks :
              pc'[t] = "ok" /\ call'[t].op \in {"delete", "revoke", "rotate"} =>
                 \/ pc[t] = "ok"
                 \/ call'[t].op = "delete" /\ call'[t].padded
                 \/ cache'[sent'[t].handle] = None
    PROVE  EndedForgotten'
<1> SUFFICES ASSUME NEW t \in Tasks,
                    pc'[t] = "ok",
                    call'[t].op \in {"delete", "revoke", "rotate"},
                    call'[t].op = "delete" => ~call'[t].padded,
                    \A u \in Tasks : ~On(u, {"preload"}, sent[t].handle)'
             PROVE  cache'[sent'[t].handle] = None
  BY Zenon DEF EndedForgotten
<1>1. CASE pc[t] = "ok"
  <2> DEFINE h == sent[t].handle
  <2>1. sent[t] # None
    BY <1>1, Zenon DEF SessionInv, TaskInv, Phase
  <2>2. Asked(t)
    BY <2>1, Zenon DEF SessionInv, TaskInv
  <2>3. call'[t] = call[t] /\ sent'[t] = sent[t]
    BY <1>1, <2>1, Zenon DEF Forward, Continues
  <2>4. Told(h)
    BY <2>2, <2>3, Zenon DEF Asked, HandleOps
  <2>5. h \in Handles
    BY <2>4, ToldIssued, Zenon
  <2>6. \A u \in Tasks : ~On(u, {"preload"}, h)
    <3> SUFFICES ASSUME NEW u \in Tasks, On(u, {"preload"}, h) PROVE FALSE
      BY Zenon
    <3>1. sent'[u] = sent[u]
      BY Zenon DEF Forward, Continues, On
    <3> QED
      BY <2>3, <3>1, Zenon DEF On
  <2>7. cache[h] = None
    BY <1>1, <2>3, <2>6, Zenon DEF SessionInv, EndedForgotten
  <2>8. ~Comes(h)
    BY <2>3, <2>4, <2>5, Zenon DEF On
  <2> QED
    BY <2>3, <2>7, <2>8, Zenon DEF Comes
<1>2. CASE pc[t] # "ok"
  BY <1>2, Zenon
<1> QED
  BY <1>1, <1>2, Zenon

-----------------------------------------------------------------------------
(***************************************************************************)
(* The broker serves a request.                                            *)
(***************************************************************************)
LEMMA NewSecretTyped ==
    ASSUME Books, NEW lifecycle \in Lifecycles, NEW requested \in Opt(Principals),
           NEW split \in BOOLEAN, MayIssue(channel, lifecycle, requested)
    PROVE  LET new == NewSecret(lifecycle, requested, split)
           IN  /\ new \in SecretType /\ IssuedHere(new.seal)
               /\ new.until = now + RedeemTtl
               /\ new.split = split
               /\ new.seal.unwrap_principal_id =
                     v2_unwrap_principal(channel, lifecycle, requested)
<1> DEFINE p == v2_unwrap_principal(channel, lifecycle, requested)
<1>1. channel \in Context /\ now \in Nat /\ now + RedeemTtl \in Nat
  BY ClientAssumption DEF Books
<1>2. p \in Opt(Principals)
  BY <1>1, Zenon DEF v2_unwrap_principal, Context
<1> HIDE DEF p
<1>3. NewSecret(lifecycle, requested, split) =
        [seal |-> [lifecycle |-> lifecycle, unwrap_principal_id |-> p,
                   issuer |-> channel],
         until |-> now + RedeemTtl, split |-> split,
         used |-> FALSE, revoked |-> FALSE, deleted |-> FALSE]
  BY Zenon DEF NewSecret, p
<1>4. IssuedHere([lifecycle |-> lifecycle, unwrap_principal_id |-> p,
                  issuer |-> channel])
  BY <1>1, Zenon DEF MayIssue, IssuedHere, SameCaller, Context
<1> QED
  BY <1>1, <1>2, <1>3, <1>4 DEF SecretType, p

LEMMA BooksGrow ==
    ASSUME SessionInv, NEW old \in Seq(SecretType),
           Len(old) = Len(secrets),
           \A s \in DOMAIN secrets : /\ old[s].seal = secrets[s].seal
                                     /\ old[s].until = secrets[s].until
                                     /\ old[s].split = secrets[s].split,
           NEW new \in SecretType, IssuedHere(new.seal),
           secrets' = Append(old, new),
           handles' = Append(handles, Len(secrets) + 1),
           UNCHANGED <<now, channel>>
    PROVE  /\ Books' /\ Grows
           /\ Len(handles') = Len(handles) + 1
           /\ handles'[Len(handles) + 1] = Len(secrets) + 1
           /\ secrets'[Len(secrets) + 1] = new
<1>0. /\ secrets \in Seq(SecretType) /\ handles \in Seq(Nat)
      /\ \A s \in DOMAIN secrets : IssuedHere(secrets[s].seal)
      /\ \A h \in DOMAIN handles : handles[h] \in DOMAIN secrets
      /\ now \in Nat /\ channel \in Context
  BY Zenon DEF SessionInv, Books
<1>1. /\ secrets' \in Seq(SecretType) /\ handles' \in Seq(Nat)
      /\ Len(secrets') = Len(secrets) + 1 /\ Len(handles') = Len(handles) + 1
      /\ \A s \in DOMAIN secrets : s \in DOMAIN secrets' /\ secrets'[s] = old[s]
      /\ secrets'[Len(secrets) + 1] = new
      /\ \A h \in DOMAIN handles : h \in DOMAIN handles' /\ handles'[h] = handles[h]
      /\ handles'[Len(handles) + 1] = Len(secrets) + 1
  BY <1>0
<1>2. Grows
  BY <1>1, Zenon DEF Grows
<1>3. \A s \in DOMAIN secrets' : s \in DOMAIN secrets \/ s = Len(secrets) + 1
  BY <1>0, <1>1
<1>4. \A s \in DOMAIN secrets' : IssuedHere(secrets'[s].seal)
  BY <1>0, <1>1, <1>3
<1>5. \A h \in DOMAIN handles' : handles'[h] \in DOMAIN secrets'
  <2>1. \A h \in DOMAIN handles' : h \in DOMAIN handles \/ h = Len(handles) + 1
    BY <1>0, <1>1
  <2>2. Len(secrets) + 1 \in DOMAIN secrets'
    BY <1>0, <1>1
  <2> QED
    BY <1>0, <1>1, <2>1, <2>2
<1>6. Books'
  BY <1>0, <1>1, <1>4, <1>5, Zenon DEF Books, IssuedHere
<1> QED
  BY <1>1, <1>2, <1>6, Zenon

LEMMA BooksMarked ==
    ASSUME SessionInv, NEW s \in DOMAIN secrets, NEW rec \in SecretType,
           rec.seal = secrets[s].seal, rec.until = secrets[s].until,
           rec.split = secrets[s].split
    PROVE  LET next == [secrets EXCEPT ![s] = rec]
           IN  /\ next \in Seq(SecretType) /\ Len(next) = Len(secrets)
               /\ \A i \in DOMAIN secrets : /\ next[i].seal = secrets[i].seal
                                            /\ next[i].until = secrets[i].until
                                            /\ next[i].split = secrets[i].split
<1>1. secrets \in Seq(SecretType)
  BY Zenon DEF SessionInv, Books
<1> QED
  BY <1>1

LEMMA Marks ==
    ASSUME SessionInv, NEW s \in DOMAIN secrets
    PROVE  LET used == [secrets[s] EXCEPT !.used = TRUE]
               revoked == [secrets[s] EXCEPT !.revoked = TRUE]
               deleted == [secrets[s] EXCEPT !.deleted = TRUE]
           IN  \A rec \in {used, revoked, deleted} :
                  /\ rec \in SecretType /\ rec.seal = secrets[s].seal
                  /\ rec.until = secrets[s].until /\ rec.split = secrets[s].split
BY SecretTyped, Zenon DEF SecretType

LEMMA BooksSame ==
    ASSUME SessionInv, NEW next \in Seq(SecretType), Len(next) = Len(secrets),
           \A s \in DOMAIN secrets : /\ next[s].seal = secrets[s].seal
                                     /\ next[s].until = secrets[s].until
                                     /\ next[s].split = secrets[s].split,
           secrets' = next, UNCHANGED <<handles, now, channel>>
    PROVE  Books' /\ Grows
<1>0. /\ secrets \in Seq(SecretType) /\ handles \in Seq(Nat)
      /\ \A s \in DOMAIN secrets : IssuedHere(secrets[s].seal)
      /\ \A h \in DOMAIN handles : handles[h] \in DOMAIN secrets
      /\ now \in Nat /\ channel \in Context
  BY Zenon DEF SessionInv, Books
<1>1. \A s : s \in DOMAIN secrets' <=> s \in DOMAIN secrets
  BY <1>0
<1> QED
  BY <1>0, <1>1, Zenon DEF Books, Grows, IssuedHere

Outcome(t) ==
    /\ \E r : reply' = [reply EXCEPT ![t] = r]
    /\ Books' /\ Grows
    /\ Answer(t)'
    /\ Len(handles') \in {Len(handles), Len(handles) + 1}
    /\ NamesHandle(t)' => /\ reply'[t].handle = Len(handles) + 1
                          /\ Len(handles') = Len(handles) + 1

LEMMA IssueFields ==
    ASSUME SessionInv, NEW t \in Tasks, sent[t] # None,
           sent[t].op \in {"wrap", "mint"}
    PROVE  /\ sent[t].lifecycle \in Lifecycles
           /\ sent[t].principal \in Opt(Principals)
           /\ sent[t].threshold \in Nat
           /\ sent[t].lifecycle = call[t].lifecycle
           /\ Cleared(call[t], sent[t].principal)
<1>1. Asked(t)
  BY Zenon DEF SessionInv, TaskInv
<1>2. sent[t] \in RequestType
  BY <1>1, Zenon DEF Asked
<1>3. sent[t] \in [op : {"wrap", "mint"}, lifecycle : Lifecycles,
                  principal : Opt(Principals), threshold : Nat,
                  custodians : BOOLEAN]
  BY <1>2, Zenon DEF RequestType, HandleOps
<1>4. sent[t] = IssueRequest(call[t], sent[t].principal)
  BY <1>1, Zenon DEF Asked
<1>5. sent[t].lifecycle = call[t].lifecycle
  BY <1>4 DEF IssueRequest
<1> QED
  BY <1>1, <1>3, <1>5, Zenon DEF Asked

LEMMA PrincipalServed ==
    ASSUME NEW c, NEW p, Cleared(c, p), MayIssue(channel, c.lifecycle, p)
    PROVE  v2_unwrap_principal(channel, c.lifecycle, p) = Principal(c)
BY Zenon
   DEF Cleared, MayIssue, v2_unwrap_principal, Principal, PrincipalNeeded,
       LineageBound

LEMMA FailureAnswers ==
    ASSUME SessionInv, NEW t \in Tasks, sent[t] # None, reply[t] = None,
           UNCHANGED <<secrets, handles, sent, call, now, channel>>,
           reply' = [reply EXCEPT ![t] = Failure],
           sent[t].op \in {"wrap", "mint"} => ~PrincipalNeeded(call[t])
    PROVE  Outcome(t)
<1>1. reply'[t] = Failure /\ ~reply'[t].ok /\ reply'[t] \in ReplyType
  BY Zenon DEF SessionInv, Failure, ReplyType
<1>2. Books'
  BY Zenon DEF SessionInv, Books, IssuedHere
<1>3. Grows
  BY Zenon DEF Grows
<1>4. Answer(t)' /\ ~NamesHandle(t)'
  BY <1>1, Zenon DEF Answer, NamesHandle, PrincipalNeeded
<1> QED
  BY <1>2, <1>3, <1>4, Zenon DEF Outcome

LEMMA IssueServed ==
    ASSUME SessionInv, NEW t \in Tasks, sent[t] # None, reply[t] = None,
           sent[t].op \in {"wrap", "mint"}, ServeIssue(t, sent[t]),
           UNCHANGED <<sent, call, now, channel>>
    PROVE  Outcome(t)
<1>0. PICK n : n = Len(secrets) + 1
  BY Zenon
<1> DEFINE q == sent[t]
           new == NewSecret(q.lifecycle, q.principal, q.threshold > 1)
           r == Issued(Len(handles) + 1, IssueMaterial(q, n))
<1>1. /\ q.lifecycle \in Lifecycles /\ q.principal \in Opt(Principals)
      /\ q.threshold \in Nat /\ q.lifecycle = call[t].lifecycle
      /\ Cleared(call[t], q.principal)
  BY IssueFields, Zenon
<1>2. CASE ~MayIssue(channel, q.lifecycle, q.principal)
  <2>1. /\ reply' = [reply EXCEPT ![t] = Failure]
        /\ UNCHANGED <<secrets, handles>>
    BY <1>2, Zenon DEF ServeIssue, brokerVars
  <2>2. ~PrincipalNeeded(call[t])
    BY <1>1, <1>2, Zenon DEF Cleared
  <2> QED
    BY <2>1, <2>2, FailureAnswers, Zenon
<1>3. CASE MayIssue(channel, q.lifecycle, q.principal)
  <2>1. /\ secrets' = Append(secrets, new)
        /\ handles' = Append(handles, n)
        /\ reply' = [reply EXCEPT ![t] = r]
    BY <1>0, <1>3, Zenon DEF ServeIssue
  <2>2. /\ new \in SecretType /\ IssuedHere(new.seal)
        /\ new.until = now + RedeemTtl
        /\ new.split = (q.threshold > 1)
        /\ new.seal.unwrap_principal_id = Principal(call[t])
    <3>1. Books /\ (q.threshold > 1) \in BOOLEAN
      BY DEF SessionInv
    <3>2. v2_unwrap_principal(channel, q.lifecycle, q.principal)
            = Principal(call[t])
      BY <1>1, <1>3, PrincipalServed, Zenon
    <3> HIDE DEF q
    <3> QED
      BY <1>1, <1>3, <3>1, <3>2, NewSecretTyped, Zenon
  <2>3. r.ok /\ r.handle = Len(handles) + 1 /\ r.until = now + RedeemTtl
        /\ r.material = IssueMaterial(q, n)
    BY Zenon DEF Issued
  <2>4. r \in ReplyType
    <3>1. IssueMaterial(q, n) \in Opt(MaterialType)
      <4>1. n \in Nat /\ <<n>> \in Seq(Nat)
        BY <1>0 DEF SessionInv, Books
      <4> QED
        BY <4>1, Zenon DEF IssueMaterial, Opt, Shares, Token, MaterialType
    <3>2. Len(handles) + 1 \in Nat /\ now + RedeemTtl \in Nat
      BY ClientAssumption DEF SessionInv, Books
    <3> HIDE DEF q
    <3> QED
      BY <3>1, <3>2, Zenon DEF Issued, ReplyType
  <2> HIDE DEF new, r
  <2>5. secrets \in Seq(SecretType)
    BY Zenon DEF SessionInv, Books
  <2>6. /\ Books' /\ Grows
        /\ Len(handles') = Len(handles) + 1
        /\ handles'[Len(handles) + 1] = n
        /\ secrets'[n] = new
    BY <1>0, <2>1, <2>2, <2>5, BooksGrow, Zenon
  <2>7. reply'[t] = r
    BY <2>1, Zenon DEF SessionInv
  <2>8. Len(handles) + 1 \in DOMAIN handles'
    BY <2>6 DEF SessionInv, Books
  <2>9. Answer(t)'
    <3>1. Replied(sent'[t], n) = IssueMaterial(q, n)
      BY Zenon DEF Replied
    <3>2. Principal(call[t])' = Principal(call[t])
      BY Zenon DEF Principal
    <3>3. /\ sent'[t] = q /\ reply'[t] = r
          /\ handles'[reply'[t].handle] = n
          /\ secrets'[n] = new
      BY <2>3, <2>6, <2>7, Zenon
    <3> QED
      BY <2>2, <2>3, <2>4, <2>8, <3>1, <3>2, <3>3, Zenon
         DEF Answer, Naming, Replied, IssueMaterial
  <2> QED
    BY <2>1, <2>3, <2>6, <2>7, <2>9, Zenon DEF Outcome
<1> QED
  BY <1>2, <1>3, Zenon

LEMMA OnIssued ==
    ASSUME SessionInv, NEW t \in Tasks, sent[t] # None,
           sent[t].op \in HandleOps \cup {"unwrap", "preload"}
    PROVE  /\ sent[t].handle \in DOMAIN handles
           /\ sent[t].handle \in Handles
           /\ handles[sent[t].handle] \in DOMAIN secrets
<1>1. Told(sent[t].handle)
  BY Zenon DEF SessionInv, TaskInv, Asked
<1>2. sent[t].handle \in DOMAIN handles /\ sent[t].handle \in Handles
  BY <1>1, ToldIssued, Zenon
<1> QED
  BY <1>2, Zenon DEF SessionInv, Books

LEMMA MarkServed ==
    ASSUME SessionInv, NEW t \in Tasks, sent[t] # None, reply[t] = None,
           sent[t].op \in {"unwrap", "revoke", "delete"},
           \/ ServeUnwrap(t, sent[t])
           \/ ServeRevoke(t, sent[t])
           \/ ServeDelete(t, sent[t]),
           UNCHANGED <<sent, call, now, channel>>
    PROVE  Outcome(t)
<1> DEFINE s == handles[sent[t].handle]
<1>1. s \in DOMAIN secrets
  BY OnIssued, Zenon DEF HandleOps
<1>2. \/ /\ reply' = [reply EXCEPT ![t] = Failure]
         /\ UNCHANGED <<secrets, handles>>
      \/ /\ reply' = [reply EXCEPT ![t] = [ok |-> TRUE]]
         /\ UNCHANGED handles
         /\ \/ secrets' = [secrets EXCEPT ![s] = [secrets[s] EXCEPT !.used = TRUE]]
            \/ secrets' = [secrets EXCEPT ![s] = [secrets[s] EXCEPT !.revoked = TRUE]]
            \/ secrets' = [secrets EXCEPT ![s] = [secrets[s] EXCEPT !.deleted = TRUE]]
  BY Zenon DEF ServeUnwrap, ServeRevoke, ServeDelete, brokerVars
<1>3. CASE /\ reply' = [reply EXCEPT ![t] = Failure]
           /\ UNCHANGED <<secrets, handles>>
  BY <1>3, FailureAnswers, Zenon
<1>4. ASSUME reply' = [reply EXCEPT ![t] = [ok |-> TRUE]],
             UNCHANGED handles,
             NEW rec, secrets' = [secrets EXCEPT ![s] = rec],
             rec \in SecretType, rec.seal = secrets[s].seal,
             rec.until = secrets[s].until, rec.split = secrets[s].split
      PROVE  Outcome(t)
  <2>1. /\ secrets' \in Seq(SecretType) /\ Len(secrets') = Len(secrets)
        /\ \A i \in DOMAIN secrets : /\ secrets'[i].seal = secrets[i].seal
                                     /\ secrets'[i].until = secrets[i].until
                                     /\ secrets'[i].split = secrets[i].split
    BY <1>1, <1>4, BooksMarked, Zenon
  <2>2. Books' /\ Grows
    BY <1>4, <2>1, BooksSame, Zenon
  <2>3. reply'[t] = [ok |-> TRUE] /\ reply'[t] \in ReplyType
    BY <1>4, Zenon DEF SessionInv, ReplyType
  <2>4. Answer(t)' /\ ~NamesHandle(t)'
    BY <2>3, Zenon DEF Answer, NamesHandle, Naming
  <2> QED
    BY <1>4, <2>2, <2>4, Zenon DEF Outcome
<1> DEFINE used == [secrets[s] EXCEPT !.used = TRUE]
           revoked == [secrets[s] EXCEPT !.revoked = TRUE]
           deleted == [secrets[s] EXCEPT !.deleted = TRUE]
<1>5. \A rec \in {used, revoked, deleted} :
         /\ rec \in SecretType /\ rec.seal = secrets[s].seal
         /\ rec.until = secrets[s].until /\ rec.split = secrets[s].split
  BY <1>1, Marks, Zenon
<1> HIDE DEF s
<1> QED
  BY <1>2, <1>3, <1>4, <1>5, Zenon

LEMMA RotateServed ==
    ASSUME SessionInv, NEW t \in Tasks, sent[t] # None, reply[t] = None,
           sent[t].op = "rotate", ServeRotate(t, sent[t]),
           UNCHANGED <<sent, call, now, channel>>
    PROVE  Outcome(t)
<1>0. PICK n : n = Len(secrets) + 1
  BY Zenon
<1> DEFINE q == sent[t]
           s == handles[q.handle]
           rec == [secrets[s] EXCEPT !.revoked = TRUE]
           old == [secrets EXCEPT ![s] = rec]
           new == NewSecret(q.lifecycle, None, q.threshold > 1)
           material == IF q.threshold > 1 THEN None
                       ELSE Token(BASE64_encode(<<n>>))
           r == Issued(Len(handles) + 1, material)
<1>1. s \in DOMAIN secrets
  BY OnIssued, Zenon DEF HandleOps
<1>2. \/ /\ reply' = [reply EXCEPT ![t] = Failure]
         /\ UNCHANGED <<secrets, handles>>
      \/ /\ MayIssue(channel, q.lifecycle, None)
         /\ secrets' = Append(old, new)
         /\ handles' = Append(handles, n)
         /\ reply' = [reply EXCEPT ![t] = r]
  BY <1>0, Zenon DEF ServeRotate, brokerVars
<1>3. CASE /\ reply' = [reply EXCEPT ![t] = Failure]
           /\ UNCHANGED <<secrets, handles>>
  BY <1>3, FailureAnswers, Zenon
<1>4. CASE /\ MayIssue(channel, q.lifecycle, None)
           /\ secrets' = Append(old, new)
           /\ handles' = Append(handles, n)
           /\ reply' = [reply EXCEPT ![t] = r]
  <2>1. q.lifecycle \in Lifecycles
    <3>1. q \in RequestType
      BY Zenon DEF SessionInv, TaskInv, Asked
    <3> QED
      BY <3>1, Zenon DEF RequestType, HandleOps
  <2>2. /\ new \in SecretType /\ IssuedHere(new.seal)
        /\ new.until = now + RedeemTtl
        /\ new.split = (q.threshold > 1)
    <3>1. Books /\ (q.threshold > 1) \in BOOLEAN /\ None \in Opt(Principals)
      BY DEF SessionInv, Opt
    <3> HIDE DEF q
    <3> QED
      BY <1>4, <2>1, <3>1, NewSecretTyped, Zenon
  <2>3. r.ok /\ r.handle = Len(handles) + 1 /\ r.until = now + RedeemTtl
        /\ r.material = material
    BY Zenon DEF Issued
  <2>4. r \in ReplyType
    <3>1. material \in Opt(MaterialType)
      <4>1. n \in Nat /\ Append(<<n>>, 0) \in Seq(Nat)
        BY <1>0 DEF SessionInv, Books
      <4> QED
        BY <4>1, Zenon DEF Opt, BASE64_encode, Token, MaterialType
    <3>2. Len(handles) + 1 \in Nat /\ now + RedeemTtl \in Nat
      BY ClientAssumption DEF SessionInv, Books
    <3> HIDE DEF material
    <3> QED
      BY <3>1, <3>2, Zenon DEF Issued, ReplyType
  <2>5. /\ rec \in SecretType /\ rec.seal = secrets[s].seal
        /\ rec.until = secrets[s].until /\ rec.split = secrets[s].split
    BY <1>1, Marks, Zenon
  <2>6. /\ old \in Seq(SecretType) /\ Len(old) = Len(secrets)
        /\ \A i \in DOMAIN secrets : /\ old[i].seal = secrets[i].seal
                                     /\ old[i].until = secrets[i].until
                                     /\ old[i].split = secrets[i].split
    <3> HIDE DEF rec, s
    <3> QED
      BY <1>1, <2>5, BooksMarked, Zenon
  <2> HIDE DEF new, r, old, material
  <2>7. /\ Books' /\ Grows
        /\ Len(handles') = Len(handles) + 1
        /\ handles'[Len(handles) + 1] = n
        /\ secrets'[n] = new
    BY <1>0, <1>4, <2>2, <2>6, BooksGrow, Zenon
  <2>8. reply'[t] = r /\ Len(handles) + 1 \in DOMAIN handles'
    BY <1>4, <2>7 DEF SessionInv, Books
  <2>9. Answer(t)'
    <3>1. Replied(sent'[t], n) = material
      BY Zenon DEF Replied, material
    <3>2. /\ sent'[t] = q /\ handles'[reply'[t].handle] = n
          /\ secrets'[n] = new /\ reply'[t] = r
      BY <2>3, <2>7, <2>8, Zenon
    <3> QED
      BY <2>2, <2>3, <2>4, <2>8, <3>1, <3>2, Zenon DEF Answer, Naming, Replied
  <2> QED
    BY <1>4, <2>3, <2>7, <2>8, <2>9, Zenon DEF Outcome
<1> QED
  BY <1>2, <1>3, <1>4, Zenon

LEMMA AttenuateServed ==
    ASSUME SessionInv, NEW t \in Tasks, sent[t] # None, reply[t] = None,
           sent[t].op = "attenuate", ServeAttenuate(t, sent[t]),
           UNCHANGED <<sent, call, now, channel>>
    PROVE  Outcome(t)
<1> DEFINE s == handles[sent[t].handle]
           r == [ok |-> TRUE, handle |-> Len(handles) + 1]
<1>0. /\ s \in DOMAIN secrets /\ s \in Nat
      /\ handles \in Seq(Nat) /\ Books
      /\ \A h \in DOMAIN handles : handles[h] \in DOMAIN secrets
  BY OnIssued DEF HandleOps, SessionInv, Books
<1> HIDE DEF s
<1>1. \/ /\ reply' = [reply EXCEPT ![t] = Failure]
         /\ UNCHANGED <<secrets, handles>>
      \/ /\ handles' = Append(handles, s)
         /\ reply' = [reply EXCEPT ![t] = r]
         /\ UNCHANGED secrets
  BY Zenon DEF ServeAttenuate, brokerVars, s
<1>2. CASE /\ reply' = [reply EXCEPT ![t] = Failure]
           /\ UNCHANGED <<secrets, handles>>
  BY <1>2, FailureAnswers, Zenon
<1>3. CASE /\ handles' = Append(handles, s)
           /\ reply' = [reply EXCEPT ![t] = r]
           /\ UNCHANGED secrets
  <2>1. /\ handles' \in Seq(Nat) /\ Len(handles') = Len(handles) + 1
        /\ \A h \in DOMAIN handles : h \in DOMAIN handles' /\ handles'[h] = handles[h]
        /\ Len(handles) + 1 \in DOMAIN handles'
        /\ handles'[Len(handles) + 1] = s
        /\ \A h \in DOMAIN handles' : h \in DOMAIN handles \/ h = Len(handles) + 1
    BY <1>0, <1>3
  <2>2. \A h \in DOMAIN handles' : handles'[h] \in DOMAIN secrets
    BY <1>0, <2>1, Zenon
  <2>3. Grows
    BY <1>3, <2>1, Zenon DEF Grows
  <2>4. Books'
    BY <1>0, <1>3, <2>1, <2>2, Zenon DEF Books, IssuedHere
  <2>5. reply'[t] = r /\ r.handle = Len(handles) + 1 /\ r \in ReplyType
    BY <1>0, <1>3 DEF SessionInv, ReplyType
  <2> HIDE DEF r
  <2>6. Answer(t)'
    BY <2>1, <2>5, Zenon DEF Answer, Naming
  <2> QED
    BY <1>3, <2>1, <2>3, <2>4, <2>5, <2>6, Zenon DEF Outcome
<1> QED
  BY <1>1, <1>2, <1>3, Zenon

LEMMA OtherServed ==
    ASSUME SessionInv, NEW t \in Tasks, sent[t] # None, reply[t] = None,
           sent[t].op \notin Naming, ServeOther(t),
           UNCHANGED <<sent, call, now, channel>>
    PROVE  Outcome(t)
<1>1. UNCHANGED <<secrets, handles>>
  BY Zenon DEF ServeOther, brokerVars
<1>2. PICK b \in BOOLEAN : reply' = [reply EXCEPT ![t] = [ok |-> b]]
  BY Zenon DEF ServeOther
<1>3. reply'[t] = [ok |-> b] /\ reply'[t] \in ReplyType
  BY <1>2, Zenon DEF SessionInv, ReplyType
<1>4. Answer(t)' /\ ~NamesHandle(t)'
  BY <1>3, Zenon DEF Answer, NamesHandle, Naming
<1>5. Books' /\ Grows
  BY <1>1, Zenon DEF SessionInv, Books, IssuedHere, Grows
<1> QED
  BY <1>1, <1>2, <1>4, <1>5, Zenon DEF Outcome

LEMMA ServeStep ==
    ASSUME SessionInv, NEW t \in Tasks, Shape, Serve(t)
    PROVE  SessionInv'
<1>0. /\ pc[t] \in {"sent", "abandoned"}
      /\ pc' = [pc EXCEPT ![t] = IF @ = "sent" THEN "replied" ELSE "lost"]
      /\ UNCHANGED <<now, channel, cache, call, sent, stored, faults>>
  BY Zenon DEF Serve
<1>1. TaskInv(t) /\ sent[t] # None /\ reply[t] = None /\ call[t] \in Calls
  BY <1>0, Zenon DEF SessionInv, TaskInv, Phase
<1>2. Outcome(t)
  <2>1. CASE sent[t].op \in {"wrap", "mint"}
    BY <1>0, <1>1, <2>1, IssueServed, Zenon DEF Serve
  <2>2. CASE sent[t].op \in {"unwrap", "revoke", "delete"}
    <3>1. \/ ServeUnwrap(t, sent[t]) \/ ServeRevoke(t, sent[t])
          \/ ServeDelete(t, sent[t])
      BY <2>2, Zenon DEF Serve
    <3> QED
      BY <1>0, <1>1, <2>2, <3>1, MarkServed, Zenon
  <2>3. CASE sent[t].op = "rotate"
    BY <1>0, <1>1, <2>3, RotateServed, Zenon DEF Serve
  <2>4. CASE sent[t].op = "attenuate"
    BY <1>0, <1>1, <2>4, AttenuateServed, Zenon DEF Serve
  <2>5. CASE sent[t].op \notin Naming \cup {"unwrap", "revoke", "delete"}
    <3>1. ServeOther(t)
      BY <2>5, Zenon DEF Serve, Naming
    <3> QED
      BY <1>0, <1>1, <2>5, <3>1, OtherServed, Zenon
  <2> QED
    BY <2>1, <2>2, <2>3, <2>4, <2>5, Zenon DEF Naming
<1>3. PICK r : reply' = [reply EXCEPT ![t] = r]
  BY <1>2, Zenon DEF Outcome
<1>4. /\ pc'[t] \in {"replied", "lost"} /\ reply'[t] = r
      /\ DOMAIN reply' = Tasks
      /\ \A u \in Tasks \ {t} : pc'[u] = pc[u] /\ reply'[u] = reply[u]
  BY <1>0, <1>3, Zenon DEF SessionInv, Shape
<1>5. Forward
  <2>1. \A u \in Tasks : Continues(u)
    BY <1>0, <1>1, <1>4, Zenon DEF Continues
  <2>2. SameCaller(channel', channel) /\ now' \in Nat /\ now' >= now
    BY <1>0 DEF SameCaller, SessionInv, Books
  <2> QED
    BY <1>2, <2>1, <2>2, Zenon DEF Forward, Outcome
<1>6. Answer(t)' /\ reply'[t] # None
  <2>1. Answer(t)'
    BY <1>2, Zenon DEF Outcome
  <2> QED
    BY <2>1, ClientAssumption, Zenon DEF Answer
<1>7. TaskInv(t)'
  <2>1. Phase(t)'
    BY <1>0, <1>1, <1>4, <1>6, Zenon DEF TaskInv, Phase
  <2>2. Asked(t)'
    <3>1. Asked(t)
      BY <1>1, Zenon DEF TaskInv
    <3>2. Cleared(call[t], sent[t].principal)' = Cleared(call[t], sent[t].principal)
      BY <1>0, Zenon DEF Cleared, Principal, MayIssue, PrincipalNeeded
    <3>3. Told(sent[t].handle) => Told(sent[t].handle)'
      BY <1>0, <1>5, ToldStays, Zenon DEF Forward, Told
    <3> QED
      BY <1>0, <3>1, <3>2, <3>3, Zenon DEF Asked, IssueRequest
  <2> QED
    BY <1>6, <2>1, <2>2, Zenon DEF TaskInv
<1>8. \A u \in Tasks : TaskInv(u)'
  <2>1. \A u \in Tasks \ {t} : SameTask(u)
    BY <1>0, <1>4, Zenon DEF SameTask
  <2> QED
    BY <1>5, <1>7, <2>1, TaskStays, Zenon
<1>9. RepliesApart'
  <2>1. \A u \in Tasks \ {t} : NamesHandle(u)' =>
           NamesHandle(u) /\ reply'[u] = reply[u] /\ reply[u].handle \in DOMAIN handles
    BY <1>0, <1>4, Zenon DEF NamesHandle, SessionInv, TaskInv, Answer
  <2>2. NamesHandle(t)' => reply'[t].handle \notin DOMAIN handles
    BY <1>2 DEF Outcome, SessionInv, Books
  <2>3. RepliesApart
    BY Zenon DEF SessionInv
  <2> QED
    BY <2>1, <2>2, <2>3, Zenon DEF RepliesApart
<1>10. RoomForAll'
  BY Zenon DEF Serve, RoomForAll
<1>11. CacheSound'
  BY <1>0, <1>5, CacheStays, Zenon
<1>12. \A u \in Tasks : pc'[u] = "ok" => pc[u] = "ok" /\ u # t
  BY <1>4, Zenon
<1>13. Present'
  <2>1. \A u \in Tasks : Names(u)' => Names(u)
    BY <1>0, <1>12, Zenon DEF Names
  <2> QED
    BY <1>0, <1>5, <2>1, PresentStays, Zenon DEF Leaves
<1>14. EndedForgotten'
  BY <1>0, <1>5, <1>12, ForgottenStays, Zenon DEF Comes
<1> QED
  BY <1>2, <1>4, <1>8, <1>9, <1>10, <1>11, <1>13, <1>14, Zenon
     DEF SessionInv, Outcome

-----------------------------------------------------------------------------
(***************************************************************************)
(* The client's own steps.  They leave the books and the replies alone;    *)
(* what they change is one task and the cache.                             *)
(***************************************************************************)
LEMMA HandlesFit ==
    ASSUME SessionInv
    PROVE  \A h \in DOMAIN handles : h \in Handles
<1>1. handles \in Seq(Nat) /\ Len(handles) <= MaxHandles
  BY Zenon DEF SessionInv, Books, RoomForAll
<1> QED
  BY <1>1, ClientAssumption DEF Handles

LocalTo(t) ==
    /\ UNCHANGED <<secrets, handles, reply, channel, now>>
    /\ pc[t] \notin {"ok", "failed"}
    /\ sent[t] # None => sent'[t] = sent[t]
    /\ \A u \in Tasks \ {t} : SameTask(u)

LEMMA LocalForward ==
    ASSUME SessionInv, NEW t \in Tasks, LocalTo(t)
    PROVE  Forward
<1>1. Grows /\ SameCaller(channel', channel)
  BY Zenon DEF LocalTo, Grows, SameCaller
<1>2. now' \in Nat /\ now' >= now
  BY DEF LocalTo, SessionInv, Books
<1>3. \A u \in Tasks : Continues(u)
  BY Zenon DEF LocalTo, Continues, SameTask
<1> QED
  BY <1>1, <1>2, <1>3, Zenon DEF Forward

LEMMA LocalStep ==
    ASSUME SessionInv, NEW t \in Tasks, LocalTo(t), TaskInv(t)',
           CacheSound', Present', EndedForgotten'
    PROVE  SessionInv'
<1>1. Books'
  BY Zenon DEF LocalTo, SessionInv, Books, IssuedHere
<1>2. \A u \in Tasks : TaskInv(u)'
  BY LocalForward, TaskStays, Zenon DEF LocalTo
<1>3. \A u \in Tasks : NamesHandle(u)' => NamesHandle(u) /\ reply'[u] = reply[u]
  <2> SUFFICES ASSUME NEW u \in Tasks, NamesHandle(u)'
               PROVE  NamesHandle(u) /\ reply'[u] = reply[u]
    BY Zenon
  <2>1. reply'[u] = reply[u] /\ reply[u] # None
    BY Zenon DEF NamesHandle, LocalTo
  <2>2. sent[u] # None
    BY <2>1, Zenon DEF SessionInv, TaskInv, Answer
  <2>3. sent'[u] = sent[u]
    BY <2>2, Zenon DEF LocalTo, SameTask
  <2> QED
    BY <2>1, <2>2, <2>3, Zenon DEF NamesHandle
<1>4. RepliesApart'
  BY <1>3 DEF SessionInv, RepliesApart
<1>5. RoomForAll' /\ DOMAIN reply' = Tasks
  BY Zenon DEF LocalTo, SessionInv, RoomForAll
<1> QED
  BY <1>1, <1>2, <1>4, <1>5, Zenon DEF SessionInv

(***************************************************************************)
(* A step that leaves the cache alone and tells no handle.                 *)
(***************************************************************************)
LEMMA CacheIdle ==
    ASSUME SessionInv, Forward, UNCHANGED cache,
           \A u \in Tasks : pc'[u] = "ok" =>
              \/ pc[u] = "ok"
              \/ call'[u].op \notin {"wrap", "mint", "delete", "revoke", "rotate"}
    PROVE  CacheSound' /\ Present' /\ EndedForgotten'
<1>1. CacheSound'
  BY CacheStays, Zenon
<1>2. \A u \in Tasks : Names(u)' => Names(u) \/ call'[u].op = "attenuate"
  BY Zenon DEF Names, Forward, Continues
<1>3. Present'
  BY <1>2, PresentStays, Zenon DEF Leaves
<1>4. EndedForgotten'
  BY ForgottenStays, Zenon DEF Comes
<1> QED
  BY <1>1, <1>3, <1>4, Zenon

LEMMA WorldStep ==
    ASSUME SessionInv, Reconnect \/ Tick \/ Done \/ UNCHANGED vars
    PROVE  SessionInv'
<1>1. UNCHANGED <<secrets, handles, cache, call, pc, sent, reply>>
  BY Zenon DEF Reconnect, Tick, Done, vars
<1>2. channel' \in Context /\ SameCaller(channel', channel)
  <2>1. channel \in Context
    BY Zenon DEF SessionInv, Books
  <2>2. CASE UNCHANGED channel
    BY <2>1, <2>2, Zenon DEF SameCaller
  <2>3. CASE Reconnect
    BY <2>1, <2>3, Zenon DEF Reconnect, Context, SameCaller
  <2> QED
    BY <2>2, <2>3, Zenon DEF Tick, Done, vars
<1>3. now' \in Nat /\ now' >= now
  BY DEF Reconnect, Tick, Done, vars, SessionInv, Books
<1>4. Forward
  BY <1>1, <1>2, <1>3, Zenon DEF Forward, Grows, Continues
<1>5. Books'
  <2>1. \A s \in DOMAIN secrets : IssuedHere(secrets[s].seal)
    BY Zenon DEF SessionInv, Books
  <2>2. \A s \in DOMAIN secrets' : IssuedHere(secrets[s].seal)'
    BY <1>1, <1>2, <2>1, Zenon DEF IssuedHere, SameCaller
  <2> QED
    BY <1>1, <1>2, <1>3, <2>2, Zenon DEF SessionInv, Books
<1>6. \A u \in Tasks : TaskInv(u)'
  BY <1>1, <1>4, TaskStays, Zenon DEF SameTask
<1>7. CacheSound' /\ Present' /\ EndedForgotten'
  BY <1>1, <1>4, CacheIdle, Zenon
<1>8. RepliesApart' /\ RoomForAll' /\ DOMAIN reply' = Tasks
  BY <1>1, Zenon DEF SessionInv, RepliesApart, NamesHandle, RoomForAll
<1> QED
  BY <1>5, <1>6, <1>7, <1>8, Zenon DEF SessionInv

LEMMA FaultStep ==
    ASSUME SessionInv, Shape, NEW t \in Tasks, Lose(t) \/ GiveUp(t)
    PROVE  SessionInv'
<1>1. /\ UNCHANGED <<secrets, handles, cache, call, sent, reply, channel, now>>
      /\ \/ /\ pc[t] \in {"describe", "sent", "replied"}
            /\ pc' = [pc EXCEPT ![t] = "lost"]
         \/ pc[t] = "sent" /\ pc' = [pc EXCEPT ![t] = "abandoned"]
  BY Zenon DEF Lose, GiveUp
<1>2. LocalTo(t) /\ pc'[t] \in {"lost", "abandoned"}
      /\ (pc'[t] = "abandoned" => pc[t] = "sent")
  BY <1>1, Zenon DEF LocalTo, SameTask, Shape
<1>3. Forward
  BY <1>2, LocalForward, Zenon
<1>4. TaskInv(t)
  BY Zenon DEF SessionInv
<1>5. Phase(t)'
  BY <1>1, <1>2, <1>4, Zenon DEF TaskInv, Phase
<1>6. SameMessages(t)
  BY <1>1, Zenon DEF SameMessages
<1>7. TaskInv(t)'
  BY <1>1, <1>3, <1>5, <1>6, MessagesStay, Zenon DEF TaskInv
<1>8. \A u \in Tasks : pc'[u] = "ok" => pc[u] = "ok"
  BY <1>2, Zenon DEF LocalTo, SameTask
<1>9. CacheSound' /\ Present' /\ EndedForgotten'
  BY <1>1, <1>3, <1>8, CacheIdle, Zenon
<1> QED
  BY <1>2, <1>7, <1>9, LocalStep, Zenon

LEMMA DescribedSession ==
    ASSUME SessionInv, Shape, NEW t \in Tasks, Described(t)
    PROVE  SessionInv'
<1> DEFINE c == call[t]
           p == resolve_v2_unwrap_principal(c, channel)
           q1 == [op |-> c.op]
           q2 == IssueRequest(c, p)
<1>1. /\ pc[t] = "describe"
      /\ UNCHANGED <<secrets, handles, cache, call, reply, channel, now>>
  BY Zenon DEF Described
<1>2. /\ sent[t] = None /\ reply[t] = None /\ c \in CallType
      /\ \/ c.op = "discharge"
         \/ c.op \in {"wrap", "mint"} /\ PrincipalNeeded(c)
  BY <1>1, ClientAssumption, Zenon DEF SessionInv, TaskInv, Phase
<1>3. \/ c.op = "discharge" /\ Send(t, q1)
      \/ c.op \in {"wrap", "mint"} /\ Resolvable(c, channel) /\ Send(t, q2)
      \/ Fail(t) /\ (c.op # "discharge" => ~Resolvable(c, channel))
  BY <1>2, Zenon DEF Described
<1>4. LocalTo(t) /\ pc'[t] \in {"sent", "failed"}
  BY <1>1, <1>2, <1>3, Zenon DEF LocalTo, SameTask, Send, Fail, Shape
<1>5. Forward
  BY <1>4, LocalForward, Zenon
<1>6. TaskInv(t)'
  <2>1. CASE Fail(t) /\ (c.op # "discharge" => ~Resolvable(c, channel))
    <3>1. pc'[t] = "failed" /\ sent'[t] = None /\ reply'[t] = None
      BY <1>1, <1>2, <2>1, Zenon DEF Fail, Shape
    <3>2. c.op # "discharge" /\ ClientPrincipal \in {None, channel.principal}
            => ~MayIssue(channel, c.lifecycle, c.requested)
      BY <1>2, <2>1, Zenon
         DEF Resolvable, require_authenticated_channel_principal, MayIssue,
             PrincipalNeeded, LineageBound
    <3> QED
      BY <1>1, <3>1, <3>2, Zenon DEF SessionInv, TaskInv, Phase, MayIssue
  <2>2. ASSUME NEW q, Send(t, q), q \in RequestType, q.op = c.op,
               q.op \in {"wrap", "mint"} =>
                  q = IssueRequest(c, q.principal) /\ Cleared(c, q.principal),
               q.op \notin HandleOps \cup {"unwrap", "preload"}
        PROVE  TaskInv(t)'
    <3>1. /\ pc'[t] = "sent" /\ sent'[t] = q /\ reply'[t] = None
          /\ q # None
      BY <1>1, <1>2, <2>2, ClientAssumption, Zenon DEF Send, Shape
    <3>2. Asked(t)'
      BY <1>1, <2>2, <3>1, Zenon
         DEF Asked, IssueRequest, Cleared, MayIssue, Principal, PrincipalNeeded
    <3>3. Phase(t)'
      BY <1>1, <3>1, Zenon DEF SessionInv, TaskInv, Phase
    <3> QED
      BY <3>1, <3>2, <3>3, Zenon DEF TaskInv
  <2>3. CASE c.op = "discharge" /\ Send(t, q1)
    <3>1. q1 \in RequestType /\ q1.op = c.op
      BY <2>3, Zenon DEF RequestType
    <3> QED
      BY <2>2, <2>3, <3>1, Zenon DEF HandleOps
  <2>4. CASE c.op \in {"wrap", "mint"} /\ Resolvable(c, channel) /\ Send(t, q2)
    <3>1. q2.op = c.op /\ q2.principal = p
      BY Zenon DEF IssueRequest
    <3>2. Cleared(c, p)
      BY <1>2, <2>4, Zenon
         DEF Cleared, Resolvable, Principal, MayIssue,
             require_authenticated_channel_principal,
             resolve_v2_unwrap_principal, LineageBound, PrincipalNeeded
    <3>3. p \in Opt(Principals)
      BY <1>2, Zenon
         DEF resolve_v2_unwrap_principal, CallType, SessionInv, Books, Context
    <3>4. q2 \in RequestType
      BY <1>2, <2>4, <3>3, Zenon DEF IssueRequest, RequestType, CallType
    <3> QED
      BY <2>2, <2>4, <3>1, <3>2, <3>4, Zenon DEF HandleOps
  <2> QED
    BY <1>3, <2>1, <2>3, <2>4, Zenon
<1>7. \A u \in Tasks : pc'[u] = "ok" => pc[u] = "ok"
  BY <1>4, Zenon DEF LocalTo, SameTask
<1>8. CacheSound' /\ Present' /\ EndedForgotten'
  BY <1>1, <1>5, <1>7, CacheIdle, Zenon
<1> QED
  BY <1>4, <1>6, <1>8, LocalStep, Zenon

-----------------------------------------------------------------------------
(***************************************************************************)
(* Calls.                                                                  *)
(***************************************************************************)
LEMMA CallBegins ==
    ASSUME SessionInv, Shape, NEW t \in Tasks, NEW c \in Calls, Began(t, c),
           \/ UNCHANGED sent
           \/ \E q : sent' = [sent EXCEPT ![t] = q],
           \E x : pc' = [pc EXCEPT ![t] = x]
    PROVE  /\ LocalTo(t) /\ Forward
           /\ sent[t] = None /\ reply'[t] = None /\ call'[t] = c
           /\ c \in CallType
<1>1. /\ pc[t] = "idle" /\ call' = [call EXCEPT ![t] = c]
      /\ UNCHANGED <<now, channel, secrets, handles, reply, faults>>
  BY Zenon DEF Began
<1>2. sent[t] = None /\ reply[t] = None
  BY <1>1, Zenon DEF SessionInv, TaskInv, Phase
<1>3. LocalTo(t)
  BY <1>1, <1>2, Zenon DEF LocalTo, SameTask, Shape
<1>4. call'[t] = c
  BY <1>1, Zenon DEF Shape
<1> QED
  BY <1>1, <1>2, <1>3, <1>4, LocalForward, ClientAssumption, Zenon

LEMMA CallAsks ==
    ASSUME SessionInv, NEW t \in Tasks, Forward, UNCHANGED channel,
           NEW c \in Calls, call'[t] = c,
           NEW q \in RequestType, sent'[t] = q, reply'[t] = None,
           pc'[t] = "sent" \/ (pc'[t] = "ok" /\ c.op = "preload"),
           q.op = c.op,
           q.op \in {"wrap", "mint"} =>
              q = IssueRequest(c, q.principal) /\ Cleared(c, q.principal),
           q.op \in HandleOps \cup {"unwrap", "preload"} => Told(q.handle),
           q.op \in HandleOps => q.threshold = c.threshold /\ q.padded = c.padded
    PROVE  TaskInv(t)' /\ sent'[t] # None
<1>1. q # None
  BY ClientAssumption, Zenon
<1>2. Phase(t)'
  BY <1>1, Zenon DEF Phase
<1>3. Told(q.handle) => Told(q.handle)'
  BY ToldStays, Zenon DEF Forward
<1>4. Cleared(c, q.principal) => Cleared(c, q.principal)'
  BY Zenon DEF Cleared, MayIssue, Principal, PrincipalNeeded
<1>5. Asked(t)'
  BY <1>3, <1>4, Zenon DEF Asked, IssueRequest, Told, Cleared
<1> QED
  BY <1>1, <1>2, <1>5, Zenon DEF TaskInv

(***************************************************************************)
(* What is purged is expired.                                              *)
(***************************************************************************)
LEMMA PurgeLeaves ==
    ASSUME SessionInv, Shape, NEW h \in Handles
    PROVE  /\ purge_expired[h] = None \/ purge_expired[h] = cache[h]
           /\ cache[h] # None /\ purge_expired[h] = None =>
                 now > cache[h].expires_at
BY Zenon DEF purge_expired, is_expired, Shape

LEMMA PurgeOrKeep ==
    ASSUME SessionInv, Shape, Forward, UNCHANGED now,
           cache' = cache \/ cache' = purge_expired,
           \A u \in Tasks : pc'[u] = "ok" => pc[u] = "ok"
    PROVE  CacheSound' /\ Present' /\ EndedForgotten'
<1>1. \A h \in Handles : \/ cache'[h] = None
                         \/ cache'[h] = cache[h]
  BY PurgeLeaves, Zenon
<1>2. \A h \in Handles : Leaves(h) => now' > cache[h].expires_at
  BY PurgeLeaves, Zenon DEF Leaves
<1>3. \A h \in Handles : ~Comes(h)
  BY <1>1, Zenon DEF Comes
<1>4. \A u \in Tasks : Names(u)' => Names(u)
  BY Zenon DEF Names, Forward, Continues
<1>5. CacheSound'
  BY <1>1, CacheStays, Zenon
<1>6. Present'
  BY <1>2, <1>4, PresentStays, Zenon
<1>7. EndedForgotten'
  BY <1>3, ForgottenStays, Zenon
<1> QED
  BY <1>5, <1>6, <1>7, Zenon

LEMMA IssueSession ==
    ASSUME SessionInv, Shape, NEW t \in Tasks, NEW c \in Calls,
           CallIssue(t, c) \/ CallDischarge(t, c)
    PROVE  SessionInv'
<1> DEFINE q == IssueRequest(c, None)
<1>1. /\ Began(t, c) /\ c.op \in {"wrap", "mint", "discharge"}
      /\ cache' = cache \/ cache' = purge_expired
  BY Zenon DEF CallIssue, CallDischarge
<1>2. \/ UNCHANGED sent /\ pc' = [pc EXCEPT ![t] = "describe"]
         /\ (c.op = "discharge" \/ PrincipalNeeded(c))
      \/ /\ c.op \in {"wrap", "mint"} /\ ~PrincipalNeeded(c)
         /\ sent' = [sent EXCEPT ![t] = q]
         /\ pc' = [pc EXCEPT ![t] = "sent"]
  BY Zenon DEF CallIssue, CallDischarge, Send
<1>3. /\ LocalTo(t) /\ Forward /\ UNCHANGED <<now, channel>>
      /\ sent[t] = None /\ reply'[t] = None /\ call'[t] = c /\ c \in CallType
  BY <1>1, <1>2, CallBegins, Zenon DEF LocalTo
<1>4. TaskInv(t)'
  <2>1. CASE UNCHANGED sent /\ pc' = [pc EXCEPT ![t] = "describe"]
             /\ (c.op = "discharge" \/ PrincipalNeeded(c))
    <3>1. pc'[t] = "describe" /\ sent'[t] = None
      BY <1>3, <2>1, Zenon DEF Shape
    <3> QED
      BY <1>1, <1>3, <2>1, <3>1, Zenon DEF TaskInv, Phase, PrincipalNeeded
  <2>2. CASE /\ c.op \in {"wrap", "mint"} /\ ~PrincipalNeeded(c)
             /\ sent' = [sent EXCEPT ![t] = q]
             /\ pc' = [pc EXCEPT ![t] = "sent"]
    <3>1. q.op = c.op /\ q.principal = None
      BY Zenon DEF IssueRequest
    <3>2. q \in RequestType
      BY <1>3, <2>2, Zenon DEF IssueRequest, RequestType, CallType, Opt
    <3>3. Cleared(c, None)
      BY <2>2, Zenon DEF Cleared
    <3>4. pc'[t] = "sent" /\ sent'[t] = q
      BY <2>2, Zenon DEF Shape
    <3>5. q = IssueRequest(c, q.principal)
      BY <3>1, Zenon
    <3> HIDE DEF q
    <3> QED
      BY <1>3, <2>2, <3>1, <3>2, <3>3, <3>4, <3>5, CallAsks, Zenon
         DEF HandleOps
  <2> QED
    BY <1>2, <2>1, <2>2, Zenon
<1>5. \A u \in Tasks : pc'[u] = "ok" => pc[u] = "ok"
  BY <1>2, Zenon DEF Shape
<1>6. CacheSound' /\ Present' /\ EndedForgotten'
  BY <1>1, <1>3, <1>5, PurgeOrKeep, Zenon
<1> QED
  BY <1>3, <1>4, <1>6, LocalStep, Zenon

LEMMA OnHandleSession ==
    ASSUME SessionInv, Shape, NEW t \in Tasks, NEW c \in Calls,
           NEW x, Told(x), CallOnHandle(t, c, x)
    PROVE  SessionInv'
<1> DEFINE q == [op |-> c.op, handle |-> x, lifecycle |-> c.lifecycle,
                 threshold |-> c.threshold, padded |-> c.padded]
<1>1. /\ Began(t, c) /\ c.op \in HandleOps /\ UNCHANGED cache
      /\ sent' = [sent EXCEPT ![t] = q] /\ pc' = [pc EXCEPT ![t] = "sent"]
  BY Zenon DEF CallOnHandle, Send
<1>2. x \in Nat
  BY ToldIssued DEF Handles
<1>3. q.op = c.op /\ q.handle = x /\ q.threshold = c.threshold
      /\ q.padded = c.padded
  BY Zenon
<1>4. c \in CallType
  BY ClientAssumption, Zenon
<1>5. q \in RequestType
  BY <1>1, <1>2, <1>4, Zenon DEF RequestType, CallType
<1> HIDE DEF q
<1>6. /\ LocalTo(t) /\ Forward /\ UNCHANGED <<now, channel>>
      /\ sent[t] = None /\ reply'[t] = None /\ call'[t] = c
  BY <1>1, CallBegins, Zenon DEF LocalTo
<1>7. pc'[t] = "sent" /\ sent'[t] = q
  BY <1>1, Zenon DEF Shape
<1>8. TaskInv(t)'
  BY <1>1, <1>3, <1>5, <1>6, <1>7, CallAsks, Zenon DEF HandleOps
<1>9. \A u \in Tasks : pc'[u] = "ok" => pc[u] = "ok"
  BY <1>1, Zenon DEF Shape
<1>10. CacheSound' /\ Present' /\ EndedForgotten'
  BY <1>1, <1>6, <1>9, CacheIdle, Zenon
<1> QED
  BY <1>6, <1>8, <1>10, LocalStep, Zenon

LEMMA MaterialForms ==
    ASSUME NEW s \in Nat
    PROVE  /\ <<s>> \in Seq(Nat) /\ BASE64_encode(<<s>>) \in Seq(Nat)
           /\ Decodes(BASE64_encode(<<s>>))
           /\ BASE64_decode(BASE64_encode(<<s>>)) = <<s>>
<1>1. <<s>> \in Seq(Nat) /\ Len(<<s>>) = 1
  OBVIOUS
<1>2. /\ BASE64_encode(<<s>>) \in Seq(Nat) /\ Len(BASE64_encode(<<s>>)) = 2
      /\ BASE64_encode(<<s>>)[1] = s /\ BASE64_encode(<<s>>)[2] = 0
  BY DEF BASE64_encode
<1>3. Decodes(BASE64_encode(<<s>>))
  BY <1>2 DEF Decodes
<1>4. BASE64_decode(BASE64_encode(<<s>>)) = <<s>>
  <2> DEFINE e == BASE64_encode(<<s>>)
             d == SubSeq(e, 1, 1)
  <2>1. d \in Seq(Nat) /\ Len(d) = 1 /\ d[1] = s
    <3> HIDE DEF e
    <3>1. e[1] \in Nat /\ e[1] = s
      BY <1>2, Zenon DEF e
    <3> QED
      BY <1>2, <3>1 DEF e
  <2>2. BASE64_decode(e) = d
    <3>1. Len(e) - 1 = 1
      BY <1>2
    <3>2. BASE64_decode(e) = SubSeq(e, 1, Len(e) - 1)
      BY Zenon DEF BASE64_decode
    <3> QED
      BY <3>1, <3>2, Zenon
  <2> HIDE DEF d, e
  <2>3. d = <<s>>
    BY <1>1, <2>1
  <2> QED
    BY <2>2, <2>3, Zenon DEF e
<1> QED
  BY <1>1, <1>2, <1>3, <1>4, Zenon

LEMMA UnwrapSession ==
    ASSUME SessionInv, CacheInv, NEW t \in Tasks, NEW c \in Calls,
           NEW x, Told(x), CallUnwrap(t, c, x)
    PROVE  SessionInv'
<1> DEFINE kept == purge_expired
           s == handles[x]
           given == IF secrets[s].split THEN Shares(s) ELSE Token(<<s>>)
           proto == ProtoMaterial(kept[x].material)
           supplied == UnwrapRequest(x, given, 0)
           taken == UnwrapRequest(x, proto, kept[x].number)
<1>0. Shape
  BY Zenon DEF CacheInv
<1>1. Began(t, c) /\ c.op = "unwrap"
  BY Zenon DEF CallUnwrap
<1>2. \/ cache' = kept /\ sent' = [sent EXCEPT ![t] = supplied]
                       /\ pc' = [pc EXCEPT ![t] = "sent"]
      \/ cache' = kept /\ UNCHANGED sent /\ pc' = [pc EXCEPT ![t] = "failed"]
      \/ /\ kept[x] # None
         /\ cache' = [kept EXCEPT ![x] = None]
         /\ sent' = [sent EXCEPT ![t] = taken]
         /\ pc' = [pc EXCEPT ![t] = "sent"]
  BY Zenon DEF CallUnwrap, Send, Fail, take_redeem_material
<1>3. /\ x \in Handles /\ x \in DOMAIN handles
      /\ x \in Nat /\ s \in DOMAIN secrets /\ s \in Nat
  <2>1. x \in Handles /\ x \in DOMAIN handles
    BY ToldIssued, Zenon
  <2> QED
    BY <2>1 DEF Handles, SessionInv, Books
<1>4. supplied \in RequestType
  <2>1. given \in MaterialType
    BY <1>3, MaterialForms, Zenon DEF Shares, Token, MaterialType
  <2> HIDE DEF given
  <2> QED
    BY <1>3, <2>1, Zenon DEF UnwrapRequest, RequestType
<1>5. kept[x] # None => /\ kept[x] = cache[x] /\ kept[x].number \in 1..stored
                        /\ stored \in Nat
  BY <1>0, <1>3, PurgeGoes, Zenon DEF CacheInv, Numbers, Counted, Shape
<1>6. kept[x] # None => taken \in RequestType
  <2> SUFFICES ASSUME kept[x] # None PROVE taken \in RequestType
    BY Zenon
  <2>1. kept[x].material = Stored(s)
    BY <1>3, <1>5, Zenon DEF SessionInv, CacheSound
  <2>2. proto \in MaterialType
    BY <1>3, <2>1, MaterialForms
       DEF Stored, ProtoMaterial, Shares, Token, MaterialType
  <2>3. kept[x].number \in Nat
    BY <1>5
  <2> HIDE DEF proto, kept
  <2> QED
    BY <1>3, <2>2, <2>3, Zenon DEF UnwrapRequest, RequestType
<1>7. /\ supplied.op = "unwrap" /\ supplied.handle = x
      /\ taken.op = "unwrap" /\ taken.handle = x /\ taken.number = kept[x].number
  BY Zenon DEF UnwrapRequest
<1>8. /\ LocalTo(t) /\ Forward /\ UNCHANGED <<now, channel>>
      /\ sent[t] = None /\ reply'[t] = None /\ call'[t] = c
  <2>1. UNCHANGED sent \/ \E q : sent' = [sent EXCEPT ![t] = q]
    BY <1>2, Zenon
  <2>2. \E y : pc' = [pc EXCEPT ![t] = y]
    BY <1>2, Zenon
  <2> HIDE DEF supplied, taken, kept
  <2> QED
    BY <1>0, <1>1, <2>1, <2>2, CallBegins, Zenon DEF LocalTo
<1> HIDE DEF supplied, taken, s
<1>9. \A u \in Tasks : pc'[u] = "ok" => pc[u] = "ok"
  BY <1>0, <1>2, Zenon DEF Shape
<1>10. CASE cache' = kept /\ sent' = [sent EXCEPT ![t] = supplied]
            /\ pc' = [pc EXCEPT ![t] = "sent"]
  <2>1. pc'[t] = "sent" /\ sent'[t] = supplied
    BY <1>0, <1>10, Zenon DEF Shape
  <2>2. TaskInv(t)'
    BY <1>1, <1>4, <1>7, <1>8, <2>1, CallAsks, Zenon DEF HandleOps
  <2>3. CacheSound' /\ Present' /\ EndedForgotten'
    BY <1>0, <1>8, <1>9, <1>10, PurgeOrKeep, Zenon
  <2> QED
    BY <1>8, <2>2, <2>3, LocalStep, Zenon
<1>11. CASE cache' = kept /\ UNCHANGED sent /\ pc' = [pc EXCEPT ![t] = "failed"]
  <2>1. pc'[t] = "failed" /\ sent'[t] = None
    BY <1>0, <1>8, <1>11, Zenon DEF Shape
  <2>2. TaskInv(t)'
    BY <1>1, <1>8, <2>1, Zenon DEF TaskInv, Phase
  <2>3. CacheSound' /\ Present' /\ EndedForgotten'
    BY <1>0, <1>8, <1>9, <1>11, PurgeOrKeep, Zenon
  <2> QED
    BY <1>8, <2>2, <2>3, LocalStep, Zenon
<1>12. CASE /\ kept[x] # None
            /\ cache' = [kept EXCEPT ![x] = None]
            /\ sent' = [sent EXCEPT ![t] = taken]
            /\ pc' = [pc EXCEPT ![t] = "sent"]
  <2>1. pc'[t] = "sent" /\ sent'[t] = taken
    BY <1>0, <1>12, Zenon DEF Shape
  <2>2. TaskInv(t)' /\ sent'[t] # None
    BY <1>1, <1>6, <1>7, <1>8, <1>12, <2>1, CallAsks, Zenon DEF HandleOps
  <2>3. DOMAIN kept = Handles /\ \A h \in Handles :
           /\ kept[h] = None \/ kept[h] = cache[h]
           /\ cache[h] # None /\ kept[h] = None => now > cache[h].expires_at
    BY <1>0, PurgeLeaves, PurgeGoes, Zenon DEF Shape
  <2>4. Gone(x)'
    <3>1. sent'[t].op = "unwrap" /\ sent'[t].handle = x /\ sent'[t].number > 0
      BY <1>5, <1>7, <1>12, <2>1
    <3> QED
      BY <2>2, <3>1, Zenon DEF Gone, Took
  <2> HIDE DEF kept
  <2>5. \A h \in Handles : \/ cache'[h] = None
                           \/ cache'[h] = cache[h]
    BY <1>3, <1>12, <2>3, Zenon
  <2>6. \A h \in Handles : Leaves(h) => Gone(h)' \/ now' > cache[h].expires_at
    <3> SUFFICES ASSUME NEW h \in Handles, Leaves(h), h # x
                 PROVE  now' > cache[h].expires_at
      BY <2>4, Zenon
    <3> QED
      BY <1>3, <1>8, <1>12, <2>3, Zenon DEF Leaves
  <2>7. \A u \in Tasks : Names(u)' => Names(u)
    BY <1>8, <1>9, Zenon DEF Names, Forward, Continues
  <2>8. CacheSound'
    BY <1>8, <2>5, CacheStays, Zenon
  <2>9. Present'
    BY <1>8, <2>6, <2>7, PresentStays, Zenon
  <2>10. EndedForgotten'
    BY <1>8, <1>9, <2>5, ForgottenStays, Zenon DEF Comes
  <2> QED
    BY <1>8, <2>2, <2>8, <2>9, <2>10, LocalStep, Zenon
<1> QED
  BY <1>2, <1>10, <1>11, <1>12, Zenon

(***************************************************************************)
(* An entry that is remembered is right when it comes from the books.      *)
(***************************************************************************)
LEMMA RememberedRight ==
    ASSUME SessionInv, NEW h \in DOMAIN handles, stored \in Nat,
           UNCHANGED <<secrets, handles>>,
           cache'[h] = [material   |-> Stored(handles[h]),
                        expires_at |-> secrets[handles[h]].until,
                        number     |-> stored + 1]
    PROVE  EntryRight(h)' /\ cache'[h] # None
<1>1. handles[h] \in DOMAIN secrets /\ handles[h] \in Nat
  BY DEF SessionInv, Books
<1>2. Stored(handles[h]) \in MaterialType
  BY <1>1, MaterialForms, Zenon DEF Stored, Shares, Token, MaterialType
<1>3. secrets[handles[h]].until \in Nat
  BY <1>1, SecretTyped, Zenon
<1>4. cache'[h] \in EntryType
  BY <1>2, <1>3 DEF EntryType
<1>5. Stored(handles[h])' = Stored(handles[h])
  BY Zenon DEF Stored
<1> QED
  BY <1>4, <1>5, ClientAssumption DEF EntryRight

LEMMA PreloadSession ==
    ASSUME SessionInv, Shape, NEW t \in Tasks, NEW c \in Calls,
           NEW x, Told(x), CallPreload(t, c, x)
    PROVE  SessionInv'
<1> DEFINE q == [op |-> c.op, handle |-> x]
           s == handles[x]
           entry == [material |-> Stored(s), expires_at |-> secrets[s].until,
                     number |-> stored + 1]
<1>1. /\ Began(t, c) /\ c.op = "preload"
      /\ pc' = [pc EXCEPT ![t] = "ok"]
      /\ sent' = [sent EXCEPT ![t] = q]
      /\ cache' = [purge_expired EXCEPT ![x] = entry]
  BY Zenon DEF CallPreload, Remembered, Stored
<1>2. x \in Handles /\ x \in Nat /\ x \in DOMAIN handles
  BY ToldIssued DEF Handles
<1>3. q.op = c.op /\ q.handle = x /\ q \in RequestType
  BY <1>1, <1>2, Zenon DEF RequestType
<1> HIDE DEF q, entry
<1>4. /\ LocalTo(t) /\ Forward
      /\ UNCHANGED <<now, channel, secrets, handles>>
      /\ sent[t] = None /\ reply'[t] = None /\ call'[t] = c
  BY <1>1, CallBegins, Zenon DEF LocalTo
<1>5. pc'[t] = "ok" /\ sent'[t] = q
  BY <1>1, Zenon DEF Shape
<1>6. TaskInv(t)' /\ sent'[t] # None
  BY <1>1, <1>3, <1>4, <1>5, CallAsks, Zenon DEF HandleOps
<1>7. /\ cache'[x] = entry
      /\ \A h \in Handles \ {x} : cache'[h] = purge_expired[h]
  <2>1. DOMAIN purge_expired = Handles
    BY PurgeGoes, Zenon DEF Shape
  <2> QED
    BY <1>1, <1>2, <2>1, Zenon
<1>8. EntryRight(x)' /\ cache'[x] # None
  <2>1. stored \in Nat
    BY Zenon DEF Shape
  <2> QED
    BY <1>2, <1>4, <1>7, <2>1, RememberedRight, Zenon DEF entry
<1>9. CacheSound'
  BY <1>4, <1>7, <1>8, PurgeLeaves, CacheStays, Zenon
<1>10. Present'
  <2>1. \A h \in Handles : Leaves(h) => now' > cache[h].expires_at
    BY <1>4, <1>7, <1>8, PurgeLeaves, Zenon DEF Leaves
  <2>2. \A u \in Tasks : Names(u)' => Names(u)
    BY <1>1, <1>4, Zenon DEF Names, LocalTo, SameTask
  <2> QED
    BY <1>4, <2>1, <2>2, PresentStays, Zenon
<1>11. EndedForgotten'
  <2>1. On(t, {"preload"}, x)'
    BY <1>1, <1>3, <1>5, <1>6, Zenon DEF On
  <2>2. \A h \in Handles : Comes(h) => h = x
    BY <1>7, PurgeLeaves, Zenon DEF Comes
  <2>3. \A u \in Tasks : pc'[u] = "ok" => pc[u] = "ok" \/ u = t
    BY <1>4, Zenon DEF LocalTo, SameTask
  <2> QED
    BY <1>1, <1>4, <2>1, <2>2, <2>3, ForgottenStays, Zenon
<1> QED
  BY <1>4, <1>6, <1>9, <1>10, <1>11, LocalStep, Zenon

-----------------------------------------------------------------------------
(***************************************************************************)
(* Answers.                                                                *)
(***************************************************************************)
LEMMA AnswerEnds ==
    ASSUME SessionInv, Shape, NEW t \in Tasks, NEW how,
           how = "failed" \/ (how = "ok" /\ reply[t].ok), Ended(t, how)
    PROVE  /\ LocalTo(t) /\ Forward /\ TaskInv(t)'
           /\ pc[t] = "replied" /\ pc'[t] = how
           /\ sent[t] # None /\ reply[t] # None
           /\ Asked(t) /\ Answer(t)
           /\ UNCHANGED <<now, secrets, handles, call, sent, reply>>
           /\ \A u \in Tasks \ {t} : pc'[u] = pc[u]
<1>1. /\ pc[t] = "replied" /\ pc' = [pc EXCEPT ![t] = how]
      /\ UNCHANGED <<now, channel, secrets, handles, call, sent, reply, faults>>
  BY Zenon DEF Ended
<1>2. /\ pc'[t] = how /\ sent[t] # None /\ reply[t] # None
      /\ Asked(t) /\ Answer(t) /\ call[t] \in Calls
  BY <1>1, Zenon DEF Shape, SessionInv, TaskInv, Phase
<1>3. LocalTo(t) /\ \A u \in Tasks \ {t} : pc'[u] = pc[u]
  BY <1>1, Zenon DEF LocalTo, SameTask, Shape
<1>4. Forward
  BY <1>3, LocalForward, Zenon
<1>5. SameMessages(t)
  BY <1>1, Zenon DEF SameMessages
<1>6. Phase(t)'
  BY <1>1, <1>2, Zenon DEF Phase
<1>7. TaskInv(t)'
  BY <1>1, <1>4, <1>5, <1>6, MessagesStay, Zenon DEF TaskInv
<1> QED
  BY <1>1, <1>2, <1>3, <1>4, <1>7, Zenon

(***************************************************************************)
(* A handle in a reply under way has not been told.                        *)
(***************************************************************************)
LEMMA UntoldYet ==
    ASSUME SessionInv, NEW t \in Tasks, pc[t] = "replied", NamesHandle(t)
    PROVE  ~Told(reply[t].handle)
<1> SUFFICES ASSUME NEW u \in Tasks, Names(u), reply[u].handle = reply[t].handle
             PROVE  FALSE
  BY Zenon DEF Told
<1>1. /\ call[u].op \in Naming /\ pc[u] = "ok"
      /\ sent[u] # None /\ reply[u] # None /\ reply[u].ok
  BY Zenon DEF SessionInv, TaskInv, Phase, Names, Naming
<1>2. sent[u].op = call[u].op
  BY <1>1, Zenon DEF SessionInv, TaskInv, Asked
<1>3. NamesHandle(u)
  BY <1>1, <1>2, Zenon DEF NamesHandle
<1> QED
  BY <1>1, <1>3, Zenon DEF SessionInv, RepliesApart

LEMMA QuietAnswer ==
    ASSUME SessionInv, Shape, NEW t \in Tasks,
           Refused(t) \/ OtherAnswered(t)
    PROVE  SessionInv'
<1>1. /\ UNCHANGED cache
      /\ \/ Ended(t, "failed")
         \/ /\ reply[t].ok /\ Ended(t, "ok")
            /\ sent[t].op \in {"unwrap", "attenuate", "discharge", "forward"}
  BY Zenon DEF Refused, OtherAnswered
<1>2. CASE Ended(t, "failed")
  <2>1. LocalTo(t) /\ Forward /\ TaskInv(t)'
        /\ \A u \in Tasks : pc'[u] = "ok" => pc[u] = "ok"
    BY <1>2, AnswerEnds, Zenon
  <2> QED
    BY <1>1, <2>1, CacheIdle, LocalStep, Zenon
<1>3. CASE /\ reply[t].ok /\ Ended(t, "ok")
           /\ sent[t].op \in {"unwrap", "attenuate", "discharge", "forward"}
  <2>1. /\ LocalTo(t) /\ Forward /\ TaskInv(t)' /\ Asked(t)
        /\ UNCHANGED call
        /\ \A u \in Tasks : pc'[u] = "ok" => pc[u] = "ok" \/ u = t
    BY <1>3, AnswerEnds, Zenon
  <2>2. call'[t].op \notin {"wrap", "mint", "delete", "revoke", "rotate"}
    BY <1>3, <2>1, Zenon DEF Asked
  <2> QED
    BY <1>1, <2>1, <2>2, CacheIdle, LocalStep, Zenon
<1> QED
  BY <1>1, <1>2, <1>3, Zenon

LEMMA EndSession ==
    ASSUME SessionInv, Shape, NEW t \in Tasks, EndAnswered(t)
    PROVE  SessionInv'
<1>0. PICK x : x = sent[t].handle
  BY Zenon
<1>1. /\ sent[t].op \in {"delete", "revoke"} /\ reply[t].ok /\ Ended(t, "ok")
      /\ \/ sent[t].op = "delete" /\ sent[t].padded /\ cache' = cache
         \/ cache' = [cache EXCEPT ![x] = None]
  BY <1>0, Zenon DEF EndAnswered
<1>2. /\ LocalTo(t) /\ Forward /\ TaskInv(t)' /\ Asked(t)
      /\ sent[t] # None
      /\ UNCHANGED <<call, sent>>
      /\ \A u \in Tasks : pc'[u] = "ok" => pc[u] = "ok" \/ u = t
  BY <1>1, AnswerEnds, Zenon
<1>3. x \in Handles
  BY <1>0, <1>1, <1>2, OnIssued, Zenon DEF HandleOps
<1>4. Gone(x)'
  BY <1>0, <1>1, <1>2, Zenon DEF Gone, On
<1>5. call[t].op = sent[t].op /\ call[t].padded = sent[t].padded
  BY <1>1, <1>2, Zenon DEF Asked, HandleOps
<1>6. \A h \in Handles : \/ cache'[h] = cache[h]
                         \/ h = x /\ cache'[h] = None
  BY <1>1, <1>3, Zenon DEF Shape
<1>7. CacheSound'
  BY <1>2, <1>6, CacheStays, Zenon
<1>8. Present'
  <2>1. \A h \in Handles : Leaves(h) => Gone(h)'
    BY <1>4, <1>6, Zenon DEF Leaves
  <2>2. \A u \in Tasks : Names(u)' => Names(u)
    BY <1>1, <1>2, <1>5, Zenon DEF Names
  <2> QED
    BY <1>2, <2>1, <2>2, PresentStays, Zenon
<1>9. EndedForgotten'
  <2>1. \/ call'[t].op = "delete" /\ call'[t].padded
        \/ cache'[sent'[t].handle] = None
    BY <1>0, <1>1, <1>2, <1>3, <1>5, Zenon DEF Shape
  <2>2. \A h \in Handles : ~Comes(h)
    BY <1>6, Zenon DEF Comes
  <2> QED
    BY <1>2, <2>1, <2>2, ForgottenStays, Zenon
<1> QED
  BY <1>2, <1>7, <1>8, <1>9, LocalStep, Zenon

LEMMA IssueEnds ==
    ASSUME SessionInv, Shape, NEW t \in Tasks, IssueAnswered(t)
    PROVE  SessionInv'
<1> DEFINE r == reply[t]
<1>0. PICK x : x = reply[t].handle
  BY Zenon
<1>1. /\ sent[t].op \in {"wrap", "mint"} /\ r.ok
      /\ \/ Ended(t, "failed") /\ UNCHANGED cache
         \/ /\ Ended(t, "ok") /\ r.material # None
            /\ cache' = [cache EXCEPT ![x] =
                           [material |-> Material(r), expires_at |-> r.until,
                            number |-> stored + 1]]
  BY <1>0, Zenon DEF IssueAnswered, Remembered
<1>2. CASE Ended(t, "failed") /\ UNCHANGED cache
  <2>1. LocalTo(t) /\ Forward /\ TaskInv(t)'
        /\ \A u \in Tasks : pc'[u] = "ok" => pc[u] = "ok"
    BY <1>2, AnswerEnds, Zenon
  <2> QED
    BY <1>2, <2>1, CacheIdle, LocalStep, Zenon
<1>3. CASE /\ Ended(t, "ok") /\ r.material # None
           /\ cache' = [cache EXCEPT ![x] =
                          [material |-> Material(r), expires_at |-> r.until,
                           number |-> stored + 1]]
  <2>1. /\ LocalTo(t) /\ Forward /\ TaskInv(t)' /\ Asked(t) /\ Answer(t)
        /\ sent[t] # None /\ reply[t] # None /\ pc[t] = "replied"
        /\ UNCHANGED <<call, sent, reply, secrets, handles>>
        /\ \A u \in Tasks : pc'[u] = "ok" => pc[u] = "ok" \/ u = t
    BY <1>1, <1>3, AnswerEnds, Zenon
  <2>2. /\ x \in DOMAIN handles /\ handles[x] \in Nat
        /\ r.until = secrets[handles[x]].until
        /\ r.material = IssueMaterial(sent[t], handles[x])
        /\ secrets[handles[x]].split = (sent[t].threshold > 1)
    <3>1. /\ x \in DOMAIN handles
          /\ r.until = secrets[handles[x]].until
          /\ r.material = Replied(sent[t], handles[x])
          /\ secrets[handles[x]].split = (sent[t].threshold > 1)
      BY <1>0, <1>1, <2>1, Zenon DEF Answer, Naming
    <3> QED
      BY <1>1, <3>1 DEF Replied, SessionInv, Books
  <2>3. x \in Handles
    BY <2>2, HandlesFit, Zenon
  <2>4. Material(r) = Stored(handles[x])
    <3>1. CASE sent[t].threshold > 1
      <4>1. r.material = Shares(handles[x]) /\ Stored(handles[x]) = Shares(handles[x])
        BY <1>3, <2>2, <3>1, Zenon DEF IssueMaterial, Stored
      <4> QED
        BY <4>1 DEF Material, Shares
    <3>2. CASE ~(sent[t].threshold > 1)
      <4>1. /\ r.material = Token(<<handles[x]>>)
            /\ Stored(handles[x]) = Token(BASE64_encode(<<handles[x]>>))
        BY <1>3, <2>2, <3>2, Zenon DEF IssueMaterial, Stored
      <4> QED
        BY <4>1 DEF Material, Token
    <3> QED
      BY <3>1, <3>2, Zenon
  <2>5. /\ cache'[x] = [material |-> Stored(handles[x]),
                        expires_at |-> secrets[handles[x]].until,
                        number |-> stored + 1]
        /\ \A h \in Handles \ {x} : cache'[h] = cache[h]
    BY <1>3, <2>2, <2>3, <2>4, Zenon DEF Shape
  <2>6. EntryRight(x)' /\ cache'[x] # None
    <3>1. stored \in Nat
      BY Zenon DEF Shape
    <3> QED
      BY <2>1, <2>2, <2>5, <3>1, RememberedRight, Zenon
  <2>7. ~Told(x)
    <3>1. NamesHandle(t)
      BY <1>1, <2>1, Zenon DEF NamesHandle, Naming
    <3> QED
      BY <1>0, <2>1, <3>1, UntoldYet, Zenon
  <2>8. CacheSound'
    BY <2>1, <2>5, <2>6, CacheStays, Zenon
  <2>9. Present'
    <3>1. \A h \in Handles : ~Leaves(h)
      BY <2>5, <2>6, Zenon DEF Leaves
    <3>2. \A u \in Tasks : Names(u)' => Names(u) \/ u = t
      BY <2>1, Zenon DEF Names
    <3>3. cache'[reply'[t].handle] # None
      BY <1>0, <2>1, <2>6, Zenon
    <3> QED
      BY <2>1, <3>1, <3>2, <3>3, PresentStays, Zenon
  <2>10. EndedForgotten'
    <3>1. \A h \in Handles : Comes(h) => ~Told(h)
      BY <2>5, <2>7, Zenon DEF Comes
    <3>2. call'[t].op \notin {"delete", "revoke", "rotate"}
      BY <1>1, <2>1, Zenon DEF Asked
    <3> QED
      BY <2>1, <3>1, <3>2, ForgottenStays, Zenon
  <2> QED
    BY <2>1, <2>8, <2>9, <2>10, LocalStep, Zenon
<1> QED
  BY <1>1, <1>2, <1>3, Zenon

LEMMA RotateEnds ==
    ASSUME SessionInv, Shape, NEW t \in Tasks, RotateAnswered(t)
    PROVE  SessionInv'
<1> DEFINE r == reply[t]
<1>0. PICK x, y : x = reply[t].handle /\ y = sent[t].handle
  BY Zenon
<1>1. /\ sent[t].op = "rotate" /\ r.ok /\ Ended(t, "ok")
      /\ LET kept == IF r.material # None /\ Storable(r.material)
                       THEN [cache EXCEPT ![x] =
                               [material |-> r.material, expires_at |-> r.until,
                                number |-> stored + 1]]
                       ELSE cache
         IN  cache' = [kept EXCEPT ![y] = None]
  BY <1>0, Zenon DEF RotateAnswered, Remembered
<1>2. /\ LocalTo(t) /\ Forward /\ TaskInv(t)' /\ Asked(t) /\ Answer(t)
      /\ sent[t] # None /\ reply[t] # None /\ pc[t] = "replied"
      /\ UNCHANGED <<call, sent, reply, secrets, handles>>
      /\ \A u \in Tasks : pc'[u] = "ok" => pc[u] = "ok" \/ u = t
  BY <1>1, AnswerEnds, Zenon
<1>3. /\ call[t].op = "rotate" /\ call[t].threshold = sent[t].threshold
      /\ Told(y)
  BY <1>0, <1>1, <1>2, Zenon DEF Asked, HandleOps
<1>4. y \in Handles
  BY <1>3, ToldIssued, Zenon
<1>5. /\ x \in DOMAIN handles /\ handles[x] \in Nat
      /\ r.until = secrets[handles[x]].until
      /\ r.material = IF sent[t].threshold > 1 THEN None
                       ELSE Token(BASE64_encode(<<handles[x]>>))
      /\ secrets[handles[x]].split = (sent[t].threshold > 1)
  <2>1. /\ x \in DOMAIN handles
        /\ r.until = secrets[handles[x]].until
        /\ r.material = Replied(sent[t], handles[x])
        /\ secrets[handles[x]].split = (sent[t].threshold > 1)
    BY <1>0, <1>1, <1>2, Zenon DEF Answer, Naming
  <2> QED
    BY <1>1, <2>1 DEF Replied, SessionInv, Books
<1>6. ~Told(x)
  <2>1. NamesHandle(t)
    BY <1>1, <1>2, Zenon DEF NamesHandle, Naming
  <2> QED
    BY <1>0, <1>2, <2>1, UntoldYet, Zenon
<1>7. Gone(y)'
  BY <1>0, <1>1, <1>2, Zenon DEF Gone, On
<1>8. /\ cache'[y] = None
      /\ \A h \in Handles \ {x, y} : cache'[h] = cache[h]
      /\ sent[t].threshold > 1 => cache'[x] = cache[x]
      /\ ~(sent[t].threshold > 1) => EntryRight(x)' /\ cache'[x] # None
  <2>1. x # y /\ x \in Handles
    BY <1>3, <1>5, <1>6, HandlesFit, Zenon
  <2>2. CASE sent[t].threshold > 1
    <3>1. cache' = [cache EXCEPT ![y] = None]
      BY <1>1, <1>5, <2>2, Zenon
    <3> QED
      BY <1>4, <2>1, <2>2, <3>1, Zenon DEF Shape
  <2>3. CASE ~(sent[t].threshold > 1)
    <3>1. /\ r.material = Stored(handles[x])
          /\ r.material = Token(BASE64_encode(<<handles[x]>>))
      BY <1>5, <2>3, Zenon DEF Stored
    <3>2. r.material # None /\ Storable(r.material)
      <4>1. Decodes(BASE64_encode(<<handles[x]>>))
            /\ BASE64_encode(<<handles[x]>>) \in Seq(Nat)
        BY <1>5, MaterialForms, Zenon
      <4>2. Token(BASE64_encode(<<handles[x]>>)) \in MaterialType
        BY <4>1, Zenon DEF Token, MaterialType
      <4> QED
        BY <3>1, <4>1, <4>2, ClientAssumption DEF Storable, Token
    <3> DEFINE new == [material |-> Stored(handles[x]),
                       expires_at |-> secrets[handles[x]].until,
                       number |-> stored + 1]
    <3>3. cache' = [[cache EXCEPT ![x] = new] EXCEPT ![y] = None]
      BY <1>1, <1>5, <3>1, <3>2, Zenon
    <3>4. cache'[x] = new
      <4> HIDE DEF new
      <4> QED
        BY <2>1, <3>3, Zenon DEF Shape
    <3>5. EntryRight(x)' /\ cache'[x] # None
      <4>1. stored \in Nat
        BY Zenon DEF Shape
      <4> QED
        BY <1>2, <1>5, <3>4, <4>1, RememberedRight, Zenon
    <3>6. cache'[y] = None /\ \A h \in Handles \ {x, y} : cache'[h] = cache[h]
      <4> HIDE DEF new
      <4> QED
        BY <1>4, <2>1, <3>3, Zenon DEF Shape
    <3> QED
      BY <2>3, <3>5, <3>6, Zenon
  <2> QED
    BY <2>2, <2>3, Zenon
<1>9. CacheSound'
  BY <1>2, <1>8, CacheStays, Zenon
<1>10. Present'
  <2>1. \A h \in Handles : Leaves(h) => Gone(h)'
    BY <1>7, <1>8, Zenon DEF Leaves
  <2>2. \A u \in Tasks : Names(u)' => Names(u) \/ u = t
    BY <1>2, Zenon DEF Names
  <2>3. sent[t].threshold \in Nat
    BY <1>1, <1>2, Zenon DEF Asked, RequestType, HandleOps
  <2>4. \/ call'[t].op = "rotate" /\ call'[t].threshold # 1
        \/ cache'[reply'[t].handle] # None
    BY <1>0, <1>2, <1>3, <1>8, <2>3
  <2> QED
    BY <1>2, <2>1, <2>2, <2>4, PresentStays, Zenon
<1>11. EndedForgotten'
  <2>1. \A h \in Handles : Comes(h) => ~Told(h)
    BY <1>6, <1>8, Zenon DEF Comes
  <2>2. cache'[sent'[t].handle] = None
    BY <1>0, <1>2, <1>8, Zenon
  <2> QED
    BY <1>2, <2>1, <2>2, ForgottenStays, Zenon
<1> QED
  BY <1>2, <1>9, <1>10, <1>11, LocalStep, Zenon

LEMMA SessionInit == Init => SessionInv
<1> SUFFICES ASSUME Init PROVE SessionInv
  BY Zenon
<1>1. /\ now = 0 /\ channel \in Context /\ secrets = <<>> /\ handles = <<>>
      /\ DOMAIN reply = Tasks
      /\ \A h \in Handles : cache[h] = None
      /\ \A t \in Tasks : /\ call[t] = None /\ pc[t] = "idle"
                          /\ sent[t] = None /\ reply[t] = None
  BY ClientAssumption, Zenon DEF Init
<1>2. Books
  BY <1>1 DEF Books
<1>3. \A t \in Tasks : TaskInv(t)
  BY <1>1, Zenon DEF TaskInv, Phase
<1>4. RepliesApart /\ CacheSound /\ Present /\ EndedForgotten
  BY <1>1, Zenon
     DEF RepliesApart, NamesHandle, CacheSound, Present, Names, EndedForgotten
<1>5. RoomForAll
  BY <1>1, ClientAssumption DEF RoomForAll
<1> QED
  BY <1>1, <1>2, <1>3, <1>4, <1>5, Zenon DEF SessionInv

LEMMA SessionStep == CacheInv /\ SessionInv /\ [Next]_vars => SessionInv'
<1> SUFFICES ASSUME CacheInv, SessionInv, [Next]_vars PROVE SessionInv'
  BY Zenon
<1>0. Shape
  BY Zenon DEF CacheInv
<1>1. ASSUME NEW t \in Tasks, Call(t)
      PROVE  SessionInv'
  <2>1. PICK c \in Calls :
           \/ CallIssue(t, c) \/ CallDischarge(t, c)
           \/ \E h \in Handles :
                 /\ h \in Known
                 /\ CallUnwrap(t, c, h) \/ CallPreload(t, c, h)
                      \/ CallOnHandle(t, c, h)
    BY <1>1, Zenon DEF Call
  <2>2. \A h \in Known : Told(h)
    BY Zenon DEF Known, Told
  <2> QED
    BY <1>0, <2>1, <2>2, IssueSession, UnwrapSession, PreloadSession,
       OnHandleSession, Zenon
<1>2. ASSUME NEW t \in Tasks, Answered(t)
      PROVE  SessionInv'
  BY <1>0, <1>2, QuietAnswer, IssueEnds, EndSession, RotateEnds, Zenon
     DEF Answered
<1> QED
  BY <1>0, <1>1, <1>2, DescribedSession, ServeStep, FaultStep, WorldStep, Zenon
     DEF Next

(***************************************************************************)
(* SessionInv is inductive, relative to CacheInv.                          *)
(***************************************************************************)
LEMMA SessionHolds == Spec => []SessionInv
BY CacheInit, CacheStep, SessionInit, SessionStep, PTL DEF Spec

-----------------------------------------------------------------------------
(***************************************************************************)
(* What the invariant says of a cached entry.                              *)
(***************************************************************************)
LEMMA KeptRedeems ==
    ASSUME SessionInv, NEW h \in Handles, cache[h] # None,
           LET s == handles[h]
           IN  /\ ~secrets[s].used /\ ~secrets[s].revoked /\ ~secrets[s].deleted
               /\ secrets[s].seal.lifecycle = "SingleUseUnwrap" =>
                     channel.exporter = secrets[s].seal.issuer.exporter
               /\ channel.principal = secrets[s].seal.unwrap_principal_id
               /\ now <= secrets[s].until
    PROVE  Redeems(handles[h], ProtoMaterial(cache[h].material))
<1> DEFINE s == handles[h]
<1>1. /\ h \in DOMAIN handles /\ cache[h].material = Stored(s)
      /\ s \in DOMAIN secrets /\ s \in Nat
  BY DEF SessionInv, CacheSound, Books
<1>2. IssuedHere(secrets[s].seal)
  BY <1>1, Zenon DEF SessionInv, Books
<1>3. IdentityHolds(secrets[s].seal, channel, FALSE)
  BY <1>2, Zenon
     DEF IssuedHere, SameCaller, IdentityHolds, IssuedAuthenticated,
         LineageHolds
<1>4. ProtoMaterial(Stored(s)) =
         IF secrets[s].split THEN Shares(s) ELSE Token(<<s>>)
  <2>1. BASE64_decode(BASE64_encode(<<s>>)) = <<s>>
    BY <1>1, MaterialForms, Zenon
  <2>2. CASE secrets[s].split
    BY <2>2, Zenon DEF ProtoMaterial, Stored, Shares
  <2>3. CASE ~secrets[s].split
    BY <2>1, <2>3, Zenon DEF ProtoMaterial, Stored, Token
  <2> QED
    BY <2>2, <2>3, Zenon
<1> QED
  BY <1>1, <1>3, <1>4, Zenon DEF Redeems

(***************************************************************************)
(* For any number of tasks, handles and faults: material that a caller was *)
(* promised is in the cache, and in the form that the broker redeems       *)
(* (lib.rs:500, 607, 997).                                                 *)
(***************************************************************************)
THEOREM PromisedMaterialKept == Spec => []MaterialKept
<1>1. SessionInv => MaterialKept
  <2> SUFFICES ASSUME SessionInv, NEW t \in Tasks,
                      Names(t),
                      call[t].op # "attenuate",
                      call[t].op = "rotate" => call[t].threshold = 1,
                      ~Gone(reply[t].handle),
                      now <= secrets[handles[reply[t].handle]].until
               PROVE  LET h == reply[t].handle
                          s == handles[h]
                          live == /\ ~secrets[s].used
                                  /\ ~secrets[s].revoked
                                  /\ ~secrets[s].deleted
                                  /\ secrets[s].seal.lifecycle = "SingleUseUnwrap" =>
                                        channel.exporter = secrets[s].seal.issuer.exporter
                                  /\ channel.principal = secrets[s].seal.unwrap_principal_id
                      IN  /\ cache[h] # None
                          /\ live => Redeems(s, ProtoMaterial(cache[h].material))
    BY Zenon DEF MaterialKept, Gone
  <2>1. reply[t].handle \in Handles
    BY ToldIssued, Zenon DEF Told
  <2>2. cache[reply[t].handle] # None
    BY Zenon DEF SessionInv, Present
  <2> QED
    BY <2>1, <2>2, KeptRedeems, Zenon
<1> QED
  BY <1>1, SessionHolds, PTL

(***************************************************************************)
(* For any number of tasks, handles and faults: an ended handle leaves     *)
(* nothing in the cache (lib.rs:917, 954, 1001).                           *)
(***************************************************************************)
THEOREM EndedAreForgotten == Spec => []EndedForgotten
<1>1. SessionInv => EndedForgotten
  BY Zenon DEF SessionInv
<1> QED
  BY <1>1, SessionHolds, PTL

(***************************************************************************)
(* For any number of principals and any configured one: the client and the *)
(* broker agree on who may issue, and for whom (lib.rs:360-442).           *)
(***************************************************************************)
THEOREM ClientAndBrokerAgree == Spec => []PrincipalsAgree
<1>1. SessionInv => PrincipalsAgree
  <2> SUFFICES ASSUME SessionInv, NEW t \in Tasks, Issues(t)
               PROVE  LET c == call[t]
                          own == ClientPrincipal \in {None, channel.principal}
                      IN  /\ pc[t] = "failed" /\ sent[t] = None /\ own
                               => ~MayIssue(channel, c.lifecycle, c.requested)
                          /\ reply[t] # None /\ ~reply[t].ok => ~PrincipalNeeded(c)
                          /\ reply[t] # None /\ reply[t].ok =>
                               secrets[handles[reply[t].handle]].seal.unwrap_principal_id =
                                  IF c.requested = None THEN channel.principal
                                                        ELSE c.requested
    BY Zenon DEF PrincipalsAgree
  <2>1. /\ Phase(t) /\ (sent[t] # None => Asked(t))
        /\ (reply[t] # None => Answer(t))
    BY Zenon DEF SessionInv, TaskInv
  <2>2. pc[t] = "failed" /\ sent[t] = None
          /\ ClientPrincipal \in {None, channel.principal}
          => ~MayIssue(channel, call[t].lifecycle, call[t].requested)
    BY <2>1, Zenon DEF Phase, Issues
  <2>3. ASSUME reply[t] # None
        PROVE  IF reply[t].ok
                 THEN secrets[handles[reply[t].handle]].seal.unwrap_principal_id =
                         Principal(call[t])
                 ELSE ~PrincipalNeeded(call[t])
    BY <2>1, <2>3, Zenon DEF Answer, Asked, Issues
  <2> QED
    BY <2>2, <2>3, Zenon DEF Principal
<1> QED
  BY <1>1, SessionHolds, PTL
=============================================================================
