------------------------------- MODULE Client -------------------------------
(***************************************************************************)
(* The client library: the tasks of one process share an adapter with a    *)
(* cache of redeem material, and call the broker over one channel.         *)
(*                                                                         *)
(* A call runs from one await to the next.  Its request may never arrive,  *)
(* its reply may be lost, or the caller gives up before the broker serves  *)
(* it; the channel reconnects by itself.  The broker appears as its server *)
(* adapter shows it: each request is served at once.                       *)
(*                                                                         *)
(* A handle is a string, numbered in the order in which the broker writes  *)
(* them; an attenuated handle is another string for the same secret.  The  *)
(* raw redeem token of secret s is <<s>>, and base64 adds a mark to it.    *)
(***************************************************************************)
EXTENDS Identity, Sequences

CONSTANTS
    Tasks,            \* calls on the client
    Calls,            \* what the tasks may ask
    Channels,         \* the contexts that a connection may have
    ClientPrincipal,  \* client_principal_id
    RedeemTtl,        \* redeem_token_ttl
    MaxHandles,       \* bound on the handles that the broker writes
    MaxFaults,        \* bound on lost messages, give-ups and reconnections
    MaxTime           \* bound on the clock

VARIABLES
    now,              \* the clock
    channel,          \* the context of the connection
    secrets,          \* the broker's secrets, in the order of issue
    handles,          \* the secret that each handle names
    cache,            \* redeem_cache
    call,             \* the input of each task, or None
    pc,               \* where it is, or how it ended
    sent,             \* the request that it sent
    reply,            \* the reply under way to it
    stored,           \* how often redeem material was remembered
    faults            \* how many faults have happened

brokerVars == <<secrets, handles>>
vars == <<now, channel, secrets, handles, cache, call, pc, sent, reply,
          stored, faults>>

Handles == 1..MaxHandles

CallType == [op         : {"wrap", "mint", "unwrap", "preload", "attenuate",
                           "discharge", "delete", "revoke", "rotate",
                           "forward"},
             lifecycle  : Lifecycles,
             requested  : Opt(Principals),
             threshold  : Nat,
             custodians : BOOLEAN,
             supplied   : BOOLEAN,
             padded     : BOOLEAN]

(***************************************************************************)
(* Redeem material, what the cache keeps of it, requests and replies.      *)
(***************************************************************************)
MaterialType == [kind : {"token", "shares"}, data : Seq(Nat)]

EntryType == [material : MaterialType, expires_at : Nat, number : Nat]

HandleOps == {"delete", "revoke", "rotate", "attenuate", "forward"}

RequestType ==
    [op : {"wrap", "mint"}, lifecycle : Lifecycles,
     principal : Opt(Principals), threshold : Nat, custodians : BOOLEAN]
    \cup [op : {"unwrap"}, handle : Nat, material : MaterialType, number : Nat]
    \cup [op : HandleOps, handle : Nat, lifecycle : Lifecycles,
          threshold : Nat, padded : BOOLEAN]
    \cup [op : {"preload"}, handle : Nat]
    \cup [op : {"discharge"}]

ReplyType ==
    [ok : BOOLEAN]
    \cup [ok : BOOLEAN, handle : Nat]
    \cup [ok : BOOLEAN, handle : Nat, material : Opt(MaterialType), until : Nat]

ASSUME ClientAssumption ==
    /\ MaxHandles \in Nat
    /\ Calls \subseteq CallType
    /\ Channels \subseteq Context
    /\ ClientPrincipal \in Opt(Principals)
    /\ RedeemTtl \in Nat
    /\ None \notin MaterialType \cup EntryType \cup RequestType \cup ReplyType

LineageBound(lifecycle) == lifecycle # "SingleUseUnwrap"

-----------------------------------------------------------------------------
(***************************************************************************)
(* Redeem material, and how it changes form.                               *)
(***************************************************************************)
BASE64_encode(bytes) == Append(bytes, 0)
Decodes(text) == text # <<>> /\ text[Len(text)] = 0
BASE64_decode(text) == SubSeq(text, 1, Len(text) - 1)

Token(data) == [kind |-> "token", data |-> data]
Shares(s) == [kind |-> "shares", data |-> <<s>>]

(***************************************************************************)
(* The cache: purge_expired, remember_redeem_token, remember_redeem_shares *)
(* and take_redeem_material.  Every entry has a number of its own.         *)
(***************************************************************************)
is_expired(entry) == entry.expires_at # None /\ now > entry.expires_at

purge_expired ==
    [h \in Handles |-> IF cache[h] # None /\ is_expired(cache[h])
                         THEN None ELSE cache[h]]

Remembered(h, material, until, in) ==
    [in EXCEPT ![h] = [material |-> material, expires_at |-> until,
                       number |-> stored + 1]]

Storable(material) == material.kind = "token" => Decodes(material.data)

(* Mutant: the entry stays. *)
take_redeem_material_Copy(h, in) == in
take_redeem_material(h, in) == [in EXCEPT ![h] = None]

-----------------------------------------------------------------------------
(***************************************************************************)
(* Who the broker says that the caller is, and whether the client accepts  *)
(* that (resolve_v2_unwrap_principal).                                     *)
(***************************************************************************)
PrincipalNeeded(c) ==
    \/ c.requested # None
    \/ LineageBound(c.lifecycle)

(* Mutant: the certificate is asked for in every case. *)
require_authenticated_channel_principal_Cert(described, needCert) ==
    /\ described.auth
    /\ described.principal # None
    /\ described.cert # None
    /\ ClientPrincipal # None => ClientPrincipal = described.principal
require_authenticated_channel_principal(described, needCert) ==
    /\ described.auth
    /\ described.principal # None
    /\ needCert => described.cert # None
    /\ ClientPrincipal # None => ClientPrincipal = described.principal

Resolvable(c, described) ==
    /\ require_authenticated_channel_principal(described,
                                               LineageBound(c.lifecycle))
    /\ c.lifecycle = "SingleUseUnwrap" => c.requested = described.principal

resolve_v2_unwrap_principal(c, described) ==
    IF c.requested = None THEN described.principal ELSE c.requested

-----------------------------------------------------------------------------
(***************************************************************************)
(* The broker.                                                             *)
(***************************************************************************)
NewSecret(lifecycle, requested, split) ==
    [seal  |-> [lifecycle           |-> lifecycle,
                unwrap_principal_id |->
                    v2_unwrap_principal(channel, lifecycle, requested),
                issuer              |-> channel],
     until |-> now + RedeemTtl,
     split |-> split,
     used  |-> FALSE, revoked |-> FALSE, deleted |-> FALSE]

Failure == [ok |-> FALSE]

Issued(h, material) ==
    [ok |-> TRUE, handle |-> h, material |-> material,
     until |-> now + RedeemTtl]

Redeems(s, material) ==
    /\ ~secrets[s].deleted /\ ~secrets[s].revoked
    /\ secrets[s].seal.lifecycle # "RenewableLease" => ~secrets[s].used
    /\ now <= secrets[s].until
    /\ secrets[s].seal.lifecycle = "SingleUseUnwrap" =>
          channel.exporter = secrets[s].seal.issuer.exporter
    /\ IdentityHolds(secrets[s].seal, channel, FALSE)
    /\ material = IF secrets[s].split THEN Shares(s) ELSE Token(<<s>>)

(***************************************************************************)
(* Issuing.  wrap and mint send the raw token; a threshold mint sends the  *)
(* shares, or nothing when custodians claim them.                          *)
(***************************************************************************)
IssueMaterial(q, s) ==
    IF q.threshold > 1
      THEN IF q.custodians THEN None ELSE Shares(s)
      ELSE Token(<<s>>)

ServeIssue(t, q) ==
    LET s == Len(secrets) + 1
    IN  IF MayIssue(channel, q.lifecycle, q.principal)
          THEN /\ secrets' = Append(secrets,
                        NewSecret(q.lifecycle, q.principal, q.threshold > 1))
               /\ handles' = Append(handles, s)
               /\ reply' = [reply EXCEPT ![t] =
                     Issued(Len(handles) + 1, IssueMaterial(q, s))]
          ELSE /\ reply' = [reply EXCEPT ![t] = Failure]
               /\ UNCHANGED brokerVars

ServeUnwrap(t, q) ==
    LET s == handles[q.handle]
        provided == IF q.material.kind = "shares" THEN q.material
                    ELSE Token(BASE64_decode(BASE64_encode(q.material.data)))
    IN  IF Redeems(s, provided)
          THEN /\ secrets' = [secrets EXCEPT ![s].used = TRUE]
               /\ reply' = [reply EXCEPT ![t] = [ok |-> TRUE]]
               /\ UNCHANGED handles
          ELSE /\ reply' = [reply EXCEPT ![t] = Failure]
               /\ UNCHANGED brokerVars

Manages(s) == IdentityHolds(secrets[s].seal, channel, TRUE)

ServeRevoke(t, q) ==
    LET s == handles[q.handle]
    IN  IF ~secrets[s].deleted /\ Manages(s)
          THEN /\ secrets' = [secrets EXCEPT ![s].revoked = TRUE]
               /\ reply' = [reply EXCEPT ![t] = [ok |-> TRUE]]
               /\ UNCHANGED handles
          ELSE /\ reply' = [reply EXCEPT ![t] = Failure]
               /\ UNCHANGED brokerVars

ServeDelete(t, q) ==
    LET s == handles[q.handle]
    IN  IF ~secrets[s].deleted => Manages(s)
          THEN /\ secrets' = [secrets EXCEPT ![s].deleted = TRUE]
               /\ reply' = [reply EXCEPT ![t] = [ok |-> TRUE]]
               /\ UNCHANGED handles
          ELSE /\ reply' = [reply EXCEPT ![t] = Failure]
               /\ UNCHANGED brokerVars

(***************************************************************************)
(* A rotation sends the token as base64 text, or the shares beside an      *)
(* empty token.                                                            *)
(***************************************************************************)
ServeRotate(t, q) ==
    LET old == handles[q.handle]
        s == Len(secrets) + 1
    IN  IF ~secrets[old].deleted /\ Manages(old)
             /\ MayIssue(channel, q.lifecycle, None)
          THEN /\ secrets' = Append([secrets EXCEPT ![old].revoked = TRUE],
                                NewSecret(q.lifecycle, None, q.threshold > 1))
               /\ handles' = Append(handles, s)
               /\ reply' = [reply EXCEPT ![t] =
                     Issued(Len(handles) + 1,
                            IF q.threshold > 1 THEN None
                              ELSE Token(BASE64_encode(<<s>>)))]
          ELSE /\ reply' = [reply EXCEPT ![t] = Failure]
               /\ UNCHANGED brokerVars

ServeAttenuate(t, q) ==
    LET s == handles[q.handle]
    IN  IF ~secrets[s].deleted /\ IdentityHolds(secrets[s].seal, channel, FALSE)
          THEN /\ handles' = Append(handles, s)
               /\ reply' = [reply EXCEPT ![t] =
                     [ok |-> TRUE, handle |-> Len(handles) + 1]]
               /\ UNCHANGED secrets
          ELSE /\ reply' = [reply EXCEPT ![t] = Failure]
               /\ UNCHANGED brokerVars

ServeOther(t) ==
    /\ \E ok \in BOOLEAN : reply' = [reply EXCEPT ![t] = [ok |-> ok]]
    /\ UNCHANGED brokerVars

Serve(t) ==
    LET q == sent[t]
    IN  /\ pc[t] \in {"sent", "abandoned"}
        /\ pc' = [pc EXCEPT ![t] = IF @ = "sent" THEN "replied" ELSE "lost"]
        /\ CASE q.op \in {"wrap", "mint"} -> ServeIssue(t, q)
             [] q.op = "unwrap"            -> ServeUnwrap(t, q)
             [] q.op = "revoke"            -> ServeRevoke(t, q)
             [] q.op = "delete"            -> ServeDelete(t, q)
             [] q.op = "rotate"            -> ServeRotate(t, q)
             [] q.op = "attenuate"         -> ServeAttenuate(t, q)
             [] OTHER                      -> ServeOther(t)
        /\ Len(handles') <= MaxHandles
        /\ UNCHANGED <<now, channel, cache, call, sent, stored, faults>>

-----------------------------------------------------------------------------
(***************************************************************************)
(* Calls on the client, up to their first await.                           *)
(***************************************************************************)
Send(t, request) ==
    /\ pc' = [pc EXCEPT ![t] = "sent"]
    /\ sent' = [sent EXCEPT ![t] = request]

Fail(t) == pc' = [pc EXCEPT ![t] = "failed"] /\ UNCHANGED sent

Began(t, c) ==
    /\ pc[t] = "idle"
    /\ call' = [call EXCEPT ![t] = c]
    /\ UNCHANGED <<now, channel, secrets, handles, reply, faults>>

IssueRequest(c, principal) ==
    [op |-> c.op, lifecycle |-> c.lifecycle, principal |-> principal,
     threshold |-> c.threshold, custodians |-> c.custodians]

CallIssue(t, c) ==
    /\ c.op \in {"wrap", "mint"}
    /\ Began(t, c)
    /\ cache' = IF c.op = "wrap" THEN purge_expired ELSE cache
    /\ IF PrincipalNeeded(c)
         THEN pc' = [pc EXCEPT ![t] = "describe"] /\ UNCHANGED sent
         ELSE Send(t, IssueRequest(c, None))
    /\ UNCHANGED stored

CallDischarge(t, c) ==
    /\ c.op = "discharge"
    /\ Began(t, c)
    /\ pc' = [pc EXCEPT ![t] = "describe"]
    /\ UNCHANGED <<cache, sent, stored>>

(***************************************************************************)
(* describe_channel has answered.                                          *)
(***************************************************************************)
Described(t) ==
    LET c == call[t]
    IN  /\ pc[t] = "describe"
        /\ IF c.op = "discharge"
             THEN IF require_authenticated_channel_principal(channel, TRUE)
                    THEN Send(t, [op |-> c.op]) ELSE Fail(t)
             ELSE IF Resolvable(c, channel)
                    THEN Send(t, IssueRequest(c,
                               resolve_v2_unwrap_principal(c, channel)))
                    ELSE Fail(t)
        /\ UNCHANGED <<now, channel, secrets, handles, cache, call, reply,
                       stored, faults>>

(***************************************************************************)
(* The material of an unwrap is what the caller supplies, or the cached    *)
(* one, which leaves the cache before the request leaves the client.       *)
(***************************************************************************)
UnwrapRequest(h, material, number) ==
    [op |-> "unwrap", handle |-> h, material |-> material, number |-> number]

ProtoMaterial(material) ==
    IF material.kind = "token" THEN Token(BASE64_decode(material.data))
                               ELSE material

CallUnwrap(t, c, h) ==
    LET kept == purge_expired
        s == handles[h]
        given == IF secrets[s].split THEN Shares(s) ELSE Token(<<s>>)
    IN  /\ c.op = "unwrap"
        /\ Began(t, c)
        /\ IF c.supplied
             THEN cache' = kept /\ Send(t, UnwrapRequest(h, given, 0))
             ELSE IF kept[h] = None
                    THEN cache' = kept /\ Fail(t)
                    ELSE /\ cache' = take_redeem_material(h, kept)
                         /\ Send(t, UnwrapRequest(h,
                                 ProtoMaterial(kept[h].material),
                                 kept[h].number))
        /\ UNCHANGED stored

(***************************************************************************)
(* preload_redeem_token and preload_redeem_shares, with what belongs to    *)
(* the secret.                                                             *)
(***************************************************************************)
CallPreload(t, c, h) ==
    LET s == handles[h]
        material == IF secrets[s].split THEN Shares(s)
                    ELSE Token(BASE64_encode(<<s>>))
    IN  /\ c.op = "preload"
        /\ Began(t, c)
        /\ pc' = [pc EXCEPT ![t] = "ok"]
        /\ sent' = [sent EXCEPT ![t] = [op |-> c.op, handle |-> h]]
        /\ cache' = Remembered(h, material, secrets[s].until, purge_expired)
        /\ stored' = stored + 1

CallOnHandle(t, c, h) ==
    /\ c.op \in HandleOps
    /\ Began(t, c)
    /\ Send(t, [op |-> c.op, handle |-> h, lifecycle |-> c.lifecycle,
                threshold |-> c.threshold, padded |-> c.padded])
    /\ UNCHANGED <<cache, stored>>

-----------------------------------------------------------------------------
(***************************************************************************)
(* Calls on the client, from their reply on.                               *)
(***************************************************************************)
Ended(t, how) ==
    /\ pc[t] = "replied"
    /\ pc' = [pc EXCEPT ![t] = how]
    /\ UNCHANGED <<now, channel, secrets, handles, call, sent, reply, faults>>

Refused(t) ==
    /\ ~reply[t].ok
    /\ Ended(t, "failed")
    /\ UNCHANGED <<cache, stored>>

(***************************************************************************)
(* wrap and mint encode the token again before they remember it; a mint    *)
(* whose threshold shares are missing fails.                               *)
(***************************************************************************)
Material(r) ==
    IF r.material.kind = "token" THEN Token(BASE64_encode(r.material.data))
                                 ELSE r.material

(* Mutant: the answer is not remembered. *)
IssueAnswered_NotKept(t) ==
    LET r == reply[t]
    IN  /\ sent[t].op \in {"wrap", "mint"}
        /\ r.ok
        /\ Ended(t, "ok")
        /\ UNCHANGED <<cache, stored>>
IssueAnswered(t) ==
    LET r == reply[t]
    IN  /\ sent[t].op \in {"wrap", "mint"}
        /\ r.ok
        /\ IF r.material # None /\ Storable(Material(r))
             THEN /\ Ended(t, "ok")
                  /\ cache' = Remembered(r.handle, Material(r), r.until, cache)
                  /\ stored' = stored + 1
             ELSE Ended(t, "failed") /\ UNCHANGED <<cache, stored>>

(***************************************************************************)
(* delete removes the handle as the caller spelled it, revoke and rotate   *)
(* as the cache does.                                                      *)
(***************************************************************************)
(* Mutant: the material stays. *)
EndAnswered_Keeps(t) ==
    /\ sent[t].op \in {"delete", "revoke"}
    /\ reply[t].ok
    /\ Ended(t, "ok")
    /\ UNCHANGED <<cache, stored>>
EndAnswered(t) ==
    LET q == sent[t]
    IN  /\ q.op \in {"delete", "revoke"}
        /\ reply[t].ok
        /\ Ended(t, "ok")
        /\ cache' = IF q.op = "delete" /\ q.padded THEN cache
                    ELSE [cache EXCEPT ![q.handle] = None]
        /\ UNCHANGED stored

RotateAnswered(t) ==
    LET q == sent[t]
        r == reply[t]
        keep == r.material # None /\ Storable(r.material)
    IN  /\ q.op = "rotate"
        /\ r.ok
        /\ Ended(t, "ok")
        /\ LET kept == IF keep THEN Remembered(r.handle, r.material, r.until,
                                              cache)
                               ELSE cache
           IN  cache' = [kept EXCEPT ![q.handle] = None]
        /\ stored' = IF keep THEN stored + 1 ELSE stored

OtherAnswered(t) ==
    /\ sent[t].op \in {"unwrap", "attenuate", "discharge", "forward"}
    /\ reply[t].ok
    /\ Ended(t, "ok")
    /\ UNCHANGED <<cache, stored>>

-----------------------------------------------------------------------------
(***************************************************************************)
(* Messages and replies are lost, callers give up, the channel reconnects  *)
(* with the same identity, and time passes.                                *)
(***************************************************************************)
Fault == faults < MaxFaults /\ faults' = faults + 1

Lose(t) ==
    /\ Fault
    /\ pc[t] \in {"describe", "sent", "replied"}
    /\ pc' = [pc EXCEPT ![t] = "lost"]
    /\ UNCHANGED <<now, channel, secrets, handles, cache, call, sent, reply,
                   stored>>

GiveUp(t) ==
    /\ Fault
    /\ pc[t] = "sent"
    /\ pc' = [pc EXCEPT ![t] = "abandoned"]
    /\ UNCHANGED <<now, channel, secrets, handles, cache, call, sent, reply,
                   stored>>

Reconnect ==
    /\ Fault
    /\ \E x \in Exporters \ {channel.exporter} :
          channel' = [channel EXCEPT !.exporter = x]
    /\ UNCHANGED <<now, secrets, handles, cache, call, pc, sent, reply,
                   stored>>

Tick ==
    /\ now < MaxTime
    /\ now' = now + 1
    /\ UNCHANGED <<channel, secrets, handles, cache, call, pc, sent, reply,
                   stored, faults>>

Init ==
    /\ now = 0
    /\ channel \in Channels
    /\ secrets = <<>>
    /\ handles = <<>>
    /\ cache = [h \in Handles |-> None]
    /\ call = [t \in Tasks |-> None]
    /\ pc = [t \in Tasks |-> "idle"]
    /\ sent = [t \in Tasks |-> None]
    /\ reply = [t \in Tasks |-> None]
    /\ stored = 0
    /\ faults = 0

(***************************************************************************)
(* The handles that callers have been told.                                *)
(***************************************************************************)
Names(t) ==
    pc[t] = "ok" /\ call[t].op \in {"wrap", "mint", "rotate", "attenuate"}
Known == {reply[t].handle : t \in {u \in Tasks : Names(u)}}

Call(t) ==
    \E c \in Calls :
        \/ CallIssue(t, c)
        \/ CallDischarge(t, c)
        \/ \E h \in Handles :
              /\ h \in Known
              /\ \/ CallUnwrap(t, c, h)
                 \/ CallPreload(t, c, h)
                 \/ CallOnHandle(t, c, h)

Answered(t) ==
    /\ pc[t] = "replied"
    /\ \/ Refused(t)
       \/ IssueAnswered(t)
       \/ EndAnswered(t)
       \/ RotateAnswered(t)
       \/ OtherAnswered(t)

AllEnded == \A t \in Tasks : pc[t] \in {"ok", "failed", "lost"}
Done == AllEnded /\ UNCHANGED vars

Next ==
    \/ \E t \in Tasks : \/ Call(t)
                        \/ Described(t)
                        \/ Serve(t)
                        \/ Answered(t)
                        \/ Lose(t)
                        \/ GiveUp(t)
    \/ Reconnect
    \/ Tick
    \/ Done

Spec == Init /\ [][Next]_vars

-----------------------------------------------------------------------------
Issues(t) == call[t] # None /\ call[t].op \in {"wrap", "mint"}
Took(t) == sent[t] # None /\ sent[t].op = "unwrap" /\ sent[t].number > 0
On(t, ops, h) ==
    /\ sent[t] # None
    /\ sent[t].op \in ops
    /\ sent[t].handle = h

(***************************************************************************)
(* TakenOnce: what was remembered once serves one unwrap_secret_v2, also   *)
(* when several tasks ask at once, messages are lost or callers give up:   *)
(* take_redeem_material (lib.rs:1087) removes the entry that it returns.   *)
(***************************************************************************)
TakenOnce ==
    \A t \in Tasks : Took(t) =>
        /\ \A u \in Tasks \ {t} : Took(u) => sent[u].number # sent[t].number
        /\ \A h \in Handles :
              cache[h] # None => cache[h].number # sent[t].number

(***************************************************************************)
(* MaterialKept: a caller who was given a handle can unwrap it later with  *)
(* no material of its own.  As long as no task took the material of a      *)
(* handle that wrap_bytes_v2, mint_aead_key_v2 or a rotate_secret without  *)
(* threshold answered, none asked to end the handle and the material has   *)
(* not expired, the cache has it (lib.rs:500, 607, 997), in the form that  *)
(* the broker redeems while the secret is live and, for a single-use       *)
(* secret, the connection is the one that it was issued on.                *)
(***************************************************************************)
MaterialKept ==
    \A t \in Tasks :
        LET h == reply[t].handle
            s == handles[h]
            gone == \E u \in Tasks :
                      \/ Took(u) /\ sent[u].handle = h
                      \/ On(u, {"delete", "revoke", "rotate"}, h)
            live == /\ ~secrets[s].used
                    /\ ~secrets[s].revoked
                    /\ ~secrets[s].deleted
                    /\ secrets[s].seal.lifecycle = "SingleUseUnwrap" =>
                          channel.exporter = secrets[s].seal.issuer.exporter
                    /\ channel.principal = secrets[s].seal.unwrap_principal_id
        IN  /\ Names(t)
            /\ call[t].op # "attenuate"
            /\ call[t].op = "rotate" => call[t].threshold = 1
            /\ ~gone
            /\ now <= secrets[s].until
            => /\ cache[h] # None
               /\ live => Redeems(s, ProtoMaterial(cache[h].material))

(***************************************************************************)
(* EndedForgotten: once revoke_secret, rotate_secret or delete_secret has  *)
(* answered (lib.rs:917, 954, 1001), the cache holds nothing for the       *)
(* handle, whatever other tasks were doing, unless a caller preloaded it.  *)
(* A delete_secret whose caller padded the handle is the exception: the    *)
(* broker trims the handle, and the cache is asked for the padded one.     *)
(***************************************************************************)
EndedForgotten ==
    \A t \in Tasks :
        /\ pc[t] = "ok"
        /\ call[t].op \in {"delete", "revoke", "rotate"}
        /\ call[t].op = "delete" => ~call[t].padded
        /\ \A u \in Tasks : ~On(u, {"preload"}, sent[t].handle)
        => cache[sent[t].handle] = None

(***************************************************************************)
(* PrincipalsAgree: the client checks who may issue (lib.rs:360-442) as    *)
(* the broker does (validate_v2_issue_context).  It refuses no call that   *)
(* the broker would serve, unless the connection is not its configured     *)
(* principal's; the broker refuses no request that it let through, except  *)
(* one of which it checked nothing; and the secret is for the principal    *)
(* that was asked for, or else the caller's own.                           *)
(***************************************************************************)
PrincipalsAgree ==
    \A t \in Tasks : Issues(t) =>
        LET c == call[t]
            own == ClientPrincipal \in {None, channel.principal}
        IN  /\ pc[t] = "failed" /\ sent[t] = None /\ own
                 => ~MayIssue(channel, c.lifecycle, c.requested)
            /\ reply[t] # None /\ ~reply[t].ok => ~PrincipalNeeded(c)
            /\ reply[t] # None /\ reply[t].ok =>
                 secrets[handles[reply[t].handle]].seal.unwrap_principal_id =
                    IF c.requested = None THEN channel.principal
                                          ELSE c.requested
=============================================================================
