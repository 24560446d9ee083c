---------------------------- MODULE TelegramLink ----------------------------
(***************************************************************************)
(* Linking a Telegram chat to an account.  A challenge is issued to a web  *)
(* session, confirmed from it, and presented to the bot with /start; /stop *)
(* in the chat and "unlink" on the web undo the link.  The bot's side runs *)
(* in workers: an update is a job of the outbox, which may be handled a    *)
(* second time when its worker dies or outlives its lease (module Outbox), *)
(* and whose handler reads first and writes in later transactions.         *)
(*                                                                         *)
(* Replies are jobs with a key of their own and are left out, as are the   *)
(* queued messages that both ways of unlinking suppress (module Outbox).   *)
(***************************************************************************)
EXTENDS Naturals, FiniteSets

CONSTANTS
    Members,      \* accounts
    Chats,        \* Telegram chats
    Challenges,   \* rows of link_challenges
    Updates,      \* update ids of Telegram
    Handlers,     \* workers in the handler of an update
    MaxRedone     \* bound: times an update is handed out again

ASSUME LinkAssumption == MaxRedone \in Nat

VARIABLES
    challenge,    \* link_challenges
    binding,      \* channel_bindings of Telegram, by chat
    update,       \* inbox_events with the job of each
    run           \* what each handler has read, and where it is

linkVars == <<challenge, binding, update, run>>

Nobody == "nobody"
NoChat == "no chat"
Commands == {"start", "stop"}
ChallengeStates == {"unmade", "pending", "consumed", "expired"}
JobStates == {"none", "queued", "leased", "done", "failed"}
RunPhases == {"idle", "known", "stranger", "linking", "finishing"}

LinkTypeOK ==
    /\ challenge \in [Challenges -> [st : ChallengeStates, by : Members \cup {Nobody}, web : BOOLEAN]]
    /\ binding \in [Chats -> [acct : Members \cup {Nobody}, st : {"none", "active", "revoked"}]]
    /\ update \in [Updates -> [job : JobStates, redone : 0..MaxRedone, chat : Chats \cup {NoChat},
                               cmd : Commands, token : SUBSET Challenges]]
    /\ run \in [Handlers -> [phase : RunPhases, upd : SUBSET Updates,
                             acct : Members \cup {Nobody}]]

NoBinding == [acct |-> Nobody, st |-> "none"]
NoRun == [phase |-> "idle", upd |-> {}, acct |-> Nobody]

LinkInit ==
    /\ challenge = [k \in Challenges |-> [st |-> "unmade", by |-> Nobody, web |-> FALSE]]
    /\ binding = [c \in Chats |-> NoBinding]
    /\ update = [u \in Updates |-> [job |-> "none", redone |-> 0, chat |-> NoChat,
                                    cmd |-> "start", token |-> {}]]
    /\ run = [h \in Handlers |-> NoRun]

-----------------------------------------------------------------------------
(***************************************************************************)
(* The web session: a challenge is issued to its account, and confirmed by *)
(* it while pending.                                                       *)
(***************************************************************************)
IssueChallenge(a, k) ==
    /\ challenge[k].st = "unmade"
    /\ challenge' = [challenge EXCEPT ![k] = [st |-> "pending", by |-> a, web |-> FALSE]]
    /\ UNCHANGED <<binding, update, run>>

WebConfirm(a, k) ==
    /\ challenge[k].st = "pending" /\ challenge[k].by = a
    /\ challenge' = [challenge EXCEPT ![k].web = TRUE]
    /\ UNCHANGED <<binding, update, run>>

ChallengeExpires(k) ==
    /\ challenge[k].st = "pending"
    /\ challenge' = [challenge EXCEPT ![k].st = "expired"]
    /\ UNCHANGED <<binding, update, run>>

(***************************************************************************)
(* Revoking is by account: the rows of the account that are active.        *)
(***************************************************************************)
Revoked(a) == [c \in Chats |-> IF binding[c].acct = a /\ binding[c].st = "active"
                               THEN [binding[c] EXCEPT !.st = "revoked"] ELSE binding[c]]

Unlink(a) ==
    /\ binding' = Revoked(a)
    /\ UNCHANGED <<challenge, update, run>>

-----------------------------------------------------------------------------
(***************************************************************************)
(* The webhook: the inbox row and its job, in one transaction, unless the  *)
(* update id is known.  Any chat may present any token that was issued; a  *)
(* /start without one stands for every other text.                         *)
(***************************************************************************)
Webhook(u, c, cmd, token) ==
    /\ update[u].job = "none"
    /\ cmd = "start" \/ token = {}
    /\ \A k \in token : challenge[k].st # "unmade"
    /\ update' = [update EXCEPT ![u].job = "queued", ![u].chat = c, ![u].cmd = cmd,
                                ![u].token = token]
    /\ UNCHANGED <<challenge, binding, run>>

(***************************************************************************)
(* handleTelegramUpdate, first statement: the binding of the chat.         *)
(***************************************************************************)
Handle(h, u) ==
    /\ run[h].phase = "idle"
    /\ update[u].job = "queued"
    /\ update' = [update EXCEPT ![u].job = "leased"]
    /\ LET row == binding[update[u].chat] IN
         run' = [run EXCEPT ![h] = IF row.st = "active"
                                   THEN [phase |-> "known", upd |-> {u}, acct |-> row.acct]
                                   ELSE [phase |-> "stranger", upd |-> {u}, acct |-> Nobody]]
    /\ UNCHANGED <<challenge, binding>>

(***************************************************************************)
(* A known chat: /stop revokes, everything else only replies.              *)
(***************************************************************************)
Known(h, u) ==
    /\ run[h].phase = "known" /\ u \in run[h].upd
    /\ run' = [run EXCEPT ![h].phase = "finishing"]
    /\ binding' = IF update[u].cmd = "stop" THEN Revoked(run[h].acct) ELSE binding
    /\ UNCHANGED <<challenge, update>>

(***************************************************************************)
(* A stranger: /start with a challenge that is pending and confirmed goes  *)
(* on to link, anything else ends with a reply or with nothing.            *)
(***************************************************************************)
Linkable(k) == challenge[k].st = "pending" /\ challenge[k].web

Stranger(h, u) ==
    /\ run[h].phase = "stranger" /\ u \in run[h].upd
    /\ run' = [run EXCEPT ![h].phase = IF \E k \in update[u].token : Linkable(k)
                                       THEN "linking" ELSE "finishing"]
    /\ UNCHANGED <<challenge, binding, update>>

(***************************************************************************)
(* handleStartLink's transaction: the challenge again, locked; consumed;   *)
(* and the binding upserted by chat.  The account's row on another chat is *)
(* a unique violation, which aborts the transaction (the statements of the *)
(* catch block are refused with it), and requeueWithErrorCap tries the job *)
(* again or gives it up.                                                   *)
(***************************************************************************)
\* Mutant: the challenge is not read again.
AsRead(k) == TRUE

StillLinkable(k) == Linkable(k)
Elsewhere(a, c) == \E d \in Chats \ {c} : binding[d].acct = a

Link(h, u, k) ==
    /\ run[h].phase = "linking" /\ u \in run[h].upd /\ k \in update[u].token
    /\ \/ /\ StillLinkable(k)
          /\ ~Elsewhere(challenge[k].by, update[u].chat)
          /\ challenge' = [challenge EXCEPT ![k].st = "consumed"]
          /\ binding' = [binding EXCEPT ![update[u].chat] =
                                    [acct |-> challenge[k].by, st |-> "active"]]
          /\ run' = [run EXCEPT ![h].phase = "finishing"]
          /\ UNCHANGED update
       \/ /\ StillLinkable(k)
          /\ Elsewhere(challenge[k].by, update[u].chat)
          /\ \/ /\ update[u].redone < MaxRedone
                /\ update' = [update EXCEPT ![u].job = "queued", ![u].redone = @ + 1]
             \/ update' = [update EXCEPT ![u].job = "failed"]
          /\ run' = [run EXCEPT ![h] = NoRun]
          /\ UNCHANGED <<challenge, binding>>
       \/ /\ ~StillLinkable(k)
          /\ run' = [run EXCEPT ![h].phase = "finishing"]
          /\ UNCHANGED <<challenge, binding, update>>

(***************************************************************************)
(* applyUpdateProcessed, if the row is still leased.                       *)
(***************************************************************************)
FinishUpdate(h, u) ==
    /\ run[h].phase = "finishing" /\ u \in run[h].upd
    /\ run' = [run EXCEPT ![h] = NoRun]
    /\ update' = [update EXCEPT ![u].job = IF @ = "leased" THEN "done" ELSE @]
    /\ UNCHANGED <<challenge, binding>>

(***************************************************************************)
(* The worker dies, or its lease lapses: the sweep queues the job again.   *)
(***************************************************************************)
Die(h) ==
    /\ run[h].phase # "idle"
    /\ run' = [run EXCEPT ![h] = NoRun]
    /\ UNCHANGED <<challenge, binding, update>>

RequeueUpdate(u) ==
    /\ update[u].job = "leased" /\ update[u].redone < MaxRedone
    /\ update' = [update EXCEPT ![u].job = "queued", ![u].redone = @ + 1]
    /\ UNCHANGED <<challenge, binding, run>>

LinkNext ==
    \/ \E a \in Members, k \in Challenges : IssueChallenge(a, k) \/ WebConfirm(a, k)
    \/ \E k \in Challenges : ChallengeExpires(k)
    \/ \E a \in Members : Unlink(a)
    \/ \E u \in Updates, c \in Chats, cmd \in Commands :
         \E token \in {{}} \cup {{k} : k \in Challenges} : Webhook(u, c, cmd, token)
    \/ \E h \in Handlers, u \in Updates : Handle(h, u) \/ Known(h, u) \/ Stranger(h, u)
    \/ \E h \in Handlers, u \in Updates, k \in Challenges : Link(h, u, k)
    \/ \E h \in Handlers, u \in Updates : FinishUpdate(h, u)
    \/ \E h \in Handlers : Die(h)
    \/ \E u \in Updates : RequeueUpdate(u)

LinkSpec == LinkInit /\ [][LinkNext]_linkVars

-----------------------------------------------------------------------------
(***************************************************************************)
(* Two-sided linking: a chat becomes active for an account only in a step  *)
(* that consumes a challenge of that account, pending and confirmed from   *)
(* its own session, so that a token alone never links, and one challenge   *)
(* never links twice, whichever workers handle its /start.                 *)
(***************************************************************************)
ActivationConsumesChallenge ==
    [][\A c \in Chats :
         (binding'[c].st = "active" /\ binding'[c] # binding[c]) =>
             \E k \in Challenges : /\ Linkable(k) /\ challenge[k].by = binding'[c].acct
                                   /\ challenge'[k].st = "consumed"]_linkVars
=============================================================================
