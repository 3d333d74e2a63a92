--------------------------- MODULE WeixinDelivery ---------------------------
(* From a message in the inbox to its answer in WeChat: the delivery loop of  *)
(* the Weixin Gateway (weixin_gateway/service.py: _delivery_loop and what it  *)
(* calls) over the tables inbound_messages, outbound_chunks and               *)
(* outbound_artifacts (store.py), against a Controller that makes one job of  *)
(* a message_id, and an iLink whose answers may be lost.                      *)
(*                                                                            *)
(* The loop is one task and awaits at every call; two of its stretches hold   *)
(* the authorization lock, and those who change the directory hold it too.    *)
(* The process may die at every step.                                         *)
(*                                                                            *)
(* Abstractions.  A message is its place in the order of arrival.  An answer  *)
(* has the parts of Texts, and a file whose download link is its fallback;    *)
(* an explanation (of a failed job, or of a Controller too old for members)   *)
(* is one part under a key of its own.  A part that was sent again without a  *)
(* stale context token is one send.  The typing indicator is left out, and so *)
(* is the limit on the messages read in one pass.                             *)
EXTENDS Naturals, SequencesExt

CONSTANTS
    Users,        \* the people with a conversation
    FirstOwner,   \* the owner among them
    MaxInbox,     \* messages that arrive
    Texts,        \* the chunks of an answer, in their order
    MaxTroubles   \* how often a session, the directory, a call or the process changes or fails

ASSUME DeliveryAssumption ==
    /\ FirstOwner \in Users
    /\ MaxInbox \in Nat /\ MaxTroubles \in Nat
    /\ Texts \in Seq(ToSet(Texts)) /\ ToSet(Texts) \cap {"file", "link", "notice"} = {}

VARIABLES
    standing,   \* weixin_users: role and status in one word
    link,       \* the person's account: "up", "expired", "lapsed" or "gone"
    inbox,      \* inbound_messages
    jobs,       \* the Controller's jobs, by message_id
    parts,      \* outbound_chunks and outbound_artifacts
    wire,       \* how often each part reached the person
    loop,       \* the delivery loop, with the job as it was read
    lost,       \* of each part, the sends whose outcome was not learnt
    troubles    \* counts towards MaxTroubles

deliveryVars == <<standing, link, inbox, jobs, parts, wire, loop, lost, troubles>>
outsideVars == <<standing, link>>

Mail == 1 .. MaxInbox
Part == ToSet(Texts) \cup {"file", "link", "notice"}
NoMail == [state |-> "none", from |-> FirstOwner, profile |-> "none"]
NoJob == [state |-> "none", profile |-> "none", file |-> FALSE]
AtRest == [at |-> "rest", m |-> 0, todo |-> {}, left |-> << >>, job |-> NoJob]

DeliveryInit ==
    /\ standing = [p \in Users |-> IF p = FirstOwner THEN "owner" ELSE "member"]
    /\ link = [p \in Users |-> "up"]
    /\ inbox = [m \in Mail |-> NoMail]
    /\ jobs = [m \in Mail |-> NoJob]
    /\ parts = [m \in Mail |-> [k \in Part |-> "pending"]]
    /\ wire = [m \in Mail |-> [k \in Part |-> 0]]
    /\ lost = [m \in Mail |-> [k \in Part |-> 0]]
    /\ loop = AtRest /\ troubles = 0

Active == {"owner", "member"}
In(state) == {m \in Mail : inbox[m].state = state}
Profile(p) == IF standing[p] = "owner" THEN "owner" ELSE "member"
Trouble == troubles < MaxTroubles /\ troubles' = troubles + 1
Locked == loop.at \in {"submit", "send"}          \* by _authorization_lock

(* ---- the world around the loop ------------------------------------------- *)

(* store_message, from a poller: the profile is that of the sender's role.    *)
StoreMail(m, p) ==
    /\ inbox[m].state = "none" /\ \A n \in 1 .. m - 1 : inbox[n].state # "none"
    /\ standing[p] \in Active /\ link[p] = "up"
    /\ inbox' = [inbox EXCEPT ![m] = [state |-> "pending", from |-> p, profile |-> Profile(p)]]
    /\ UNCHANGED <<standing, link, jobs, parts, wire, loop, lost, troubles>>

(* What JobLifecycle promises, whose retries are left out: a job ends once,   *)
(* perhaps after a person decided it.  A cancelled one is answered as failed. *)
JobGoes(m, from, state, file) ==
    /\ jobs[m].state = from
    /\ file => state = "completed"
    /\ jobs' = [jobs EXCEPT ![m] = [state |-> state, profile |-> @.profile, file |-> file]]
    /\ UNCHANGED <<standing, link, inbox, parts, wire, loop, lost, troubles>>

JobEnds(m, state, file) == JobGoes(m, "running", state, file)
JobDoubted(m) == JobGoes(m, "running", "recovery_required", FALSE)
JobReviewed(m, state, file) == JobGoes(m, "recovery_required", state, file)

(* The directory changes under the authorization lock, as WeixinAccounts      *)
(* promises; a suspended member's account is paused, a removed one's dropped. *)
Directory == INSTANCE WeixinStanding WITH People <- Users

Suspended(p) == Directory!Suspend(p) /\ UNCHANGED link
Resumed(p) == Directory!Resume(p) /\ link' = [link EXCEPT ![p] = "up"]
Removed(p) == Directory!Remove(p) /\ link' = [link EXCEPT ![p] = "gone"]
Transferred(p) == link[p] = "up" /\ Directory!Transfer(p) /\ UNCHANGED link

DirectoryChanges(p) ==
    /\ Trouble /\ ~ Locked
    /\ Suspended(p) \/ Resumed(p) \/ Removed(p) \/ Transferred(p)
    /\ UNCHANGED <<inbox, jobs, parts, wire, loop, lost>>

(* iLink ends a session: runtime and identity say session_expired.  A poller  *)
(* that is stopped, which a new login asks for, leaves only the identity      *)
(* saying it; a login of the owner makes the identity active again.           *)
LinkExpires(p) == /\ Trouble /\ link[p] \in {"up", "lapsed"}
                  /\ link' = [link EXCEPT ![p] = "expired"]
                  /\ UNCHANGED <<standing, inbox, jobs, parts, wire, loop, lost>>
StopPollers == /\ Trouble /\ \E p \in Users : link[p] = "expired"
               /\ link' = [p \in Users |-> IF link[p] = "expired" THEN "lapsed" ELSE link[p]]
               /\ UNCHANGED <<standing, inbox, jobs, parts, wire, loop, lost>>
Relogin(p) == /\ Trouble /\ link[p] = "lapsed" /\ standing[p] = "owner"
              /\ link' = [link EXCEPT ![p] = "up"]
              /\ UNCHANGED <<standing, inbox, jobs, parts, wire, loop, lost>>

(* ---- the loop ------------------------------------------------------------- *)

Ends(m, how) == inbox' = [inbox EXCEPT ![m].state = how]
Turn == [at |-> "submitted", m |-> loop.m, todo |-> loop.todo \ {loop.m}, left |-> << >>, job |-> NoJob]
Submitted == [at |-> "submitted", m |-> 0, todo |-> In("submitted"), left |-> << >>, job |-> NoJob]

BeginPass == /\ loop.at = "rest"
             /\ loop' = [AtRest EXCEPT !.at = "pending", !.todo = In("pending")]
             /\ UNCHANGED <<outsideVars, inbox, jobs, parts, wire, lost, troubles>>

(* authorize_stored_message, and the lock is kept for the submission.         *)
Authorize ==
    /\ loop.at = "pending"
    /\ \E m \in loop.todo :
          /\ \A n \in loop.todo : m <= n
          /\ IF standing[inbox[m].from] \in Active
             THEN loop' = [loop EXCEPT !.at = "submit", !.m = m, !.todo = @ \ {m}] /\ UNCHANGED inbox
             ELSE loop' = [loop EXCEPT !.todo = @ \ {m}] /\ Ends(m, "failed")
    /\ UNCHANGED <<outsideVars, jobs, parts, wire, lost, troubles>>

Lower(m) == IF "member" \in {inbox[m].profile, Profile(inbox[m].from)} THEN "member" ELSE "owner"

(* Mutant: the sender's present role decides.                                 *)
Current(m) == Profile(inbox[m].from)

Effective(m) == Lower(m)

(* The Controller answers with the job of this message; with another profile  *)
(* than it has, the message is another request.                               *)
Submit ==
    /\ loop.at = "submit"
    /\ LET m == loop.m IN
          /\ jobs[m].state = "none" \/ jobs[m].profile = Effective(m)
          /\ jobs' = IF jobs[m].state # "none" THEN jobs
                     ELSE [jobs EXCEPT ![m] = [state |-> "running", profile |-> Effective(m), file |-> FALSE]]
    /\ \/ loop' = [loop EXCEPT !.at = "mark"] /\ UNCHANGED troubles
       \/ loop' = Submitted /\ Trouble            \* the answer is lost: break
    /\ UNCHANGED <<outsideVars, inbox, parts, wire, lost>>

SubmitRefused ==
    /\ loop.at = "submit"
    /\ IF jobs[loop.m].state # "none" /\ jobs[loop.m].profile # Effective(loop.m)
       THEN UNCHANGED troubles ELSE Trouble       \* the Controller is away or full
    /\ loop' = Submitted
    /\ UNCHANGED <<outsideVars, inbox, jobs, parts, wire, lost>>

(* The Controller does not know profiles: a member is told so.                *)
Incompatible ==
    /\ loop.at = "submit" /\ Effective(loop.m) = "member" /\ jobs[loop.m].state = "none"
    /\ loop' = [loop EXCEPT !.at = "ready", !.job = NoJob, !.left = <<"notice">>]
    /\ UNCHANGED <<outsideVars, inbox, jobs, parts, wire, lost, troubles>>

(* Mutant: the submission is not written down.                                *)
SubmissionForgotten ==
    /\ loop.at = "mark" /\ loop' = [loop EXCEPT !.at = "pending"]
    /\ UNCHANGED <<outsideVars, inbox, jobs, parts, wire, lost, troubles>>

MarkSubmitted ==
    /\ loop.at = "mark"
    /\ IF inbox[loop.m].state = "pending" THEN Ends(loop.m, "submitted") ELSE UNCHANGED inbox
    /\ loop' = [loop EXCEPT !.at = "pending"]
    /\ UNCHANGED <<outsideVars, jobs, parts, wire, lost, troubles>>

EndPhase ==
    /\ loop.at \in {"pending", "submitted"} /\ loop.todo = {}
    /\ loop' = IF loop.at = "pending" THEN Submitted ELSE AtRest
    /\ UNCHANGED <<outsideVars, inbox, jobs, parts, wire, lost, troubles>>

(* The job is read, and answered as it was read whatever becomes of it; one   *)
(* that a person has to decide is answered as a failed one.  A file is        *)
(* fetched before any lock is taken; what cannot be had is failed.            *)
Poll(m) ==
    /\ loop.at = "submitted" /\ m \in loop.todo
    /\ \/ /\ jobs[m].state = "running"
          /\ loop' = [loop EXCEPT !.todo = @ \ {m}]
       \/ /\ jobs[m].state \in {"failed", "recovery_required"}
          /\ loop' = [loop EXCEPT !.at = "ready", !.m = m, !.job = jobs[m], !.left = <<"notice">>]
       \/ /\ jobs[m].state = "completed"
          /\ loop' = [loop EXCEPT !.at = "ready", !.m = m, !.job = jobs[m],
                                  !.left = IF jobs[m].file THEN Append(Texts, "file") ELSE Texts]
    /\ \/ UNCHANGED parts
       \/ /\ jobs[m].file /\ parts[m]["file"] = "pending"
          /\ parts' = [parts EXCEPT ![m]["file"] = "failed"]
    /\ UNCHANGED <<outsideVars, inbox, jobs, wire, lost, troubles>>

(* The Controller does not answer: break.                                     *)
PollFails ==
    /\ Trouble /\ loop.at = "submitted" /\ loop.todo # {}
    /\ loop' = AtRest
    /\ UNCHANGED <<outsideVars, inbox, jobs, parts, wire, lost>>

(* _send_result and _send_artifact_result_locked up to the first part: the    *)
(* account, then both locks, then _authorization_suppression.                 *)
Suppressed(m) == standing[inbox[m].from] \notin Active \/ link[inbox[m].from] = "lapsed"
Unanswered(m) == IF inbox[m].state = "pending" THEN Submitted ELSE Turn

TakeLocks ==
    /\ loop.at = "ready"
    /\ LET m == loop.m IN
          IF link[inbox[m].from] \in {"expired", "gone"}
          THEN loop' = Unanswered(m) /\ UNCHANGED inbox
          ELSE IF Suppressed(m)
          THEN /\ Ends(m, "failed")
               /\ loop' = IF inbox[m].state = "pending" THEN [loop EXCEPT !.at = "pending", !.left = << >>] ELSE Turn
          ELSE loop' = [loop EXCEPT !.at = "send"] /\ UNCHANGED inbox
    /\ UNCHANGED <<outsideVars, jobs, parts, wire, lost, troubles>>

(* Mutant: what was sent is not looked up before a send.                      *)
NeverDone(k) == FALSE

Done(k) == parts[loop.m][k] = "sent"
Sends(m, k) == wire' = [wire EXCEPT ![m][k] = @ + 1]
Book(m, k, how) == parts' = [parts EXCEPT ![m][k] = how]
Rest(left) == loop' = [loop EXCEPT !.left = left]

(* prepare_chunk, prepare_artifact: what is booked as sent is passed over.    *)
SkipSent ==
    /\ loop.at = "send" /\ loop.left # << >> /\ Done(Head(loop.left))
    /\ Rest(Tail(loop.left))
    /\ UNCHANGED <<outsideVars, inbox, jobs, parts, wire, lost, troubles>>

(* A file that failed, or may have failed, is replaced by its link.           *)
UseLink ==
    /\ loop.at = "send" /\ loop.left # << >> /\ Head(loop.left) = "file"
    /\ parts[loop.m]["file"] \in {"failed", "unknown"}
    /\ Rest(<<"link">> \o Tail(loop.left))
    /\ UNCHANGED <<outsideVars, inbox, jobs, parts, wire, lost, troubles>>

Waits(k) == /\ loop.at = "send" /\ loop.left # << >> /\ Head(loop.left) = k /\ ~ Done(k)
            /\ k = "file" => parts[loop.m]["file"] = "pending"

SendPart(k) ==
    /\ Waits(k) /\ link[inbox[loop.m].from] = "up"
    /\ Sends(loop.m, k) /\ Book(loop.m, k, "sent")
    /\ Rest(Tail(loop.left))
    /\ UNCHANGED <<outsideVars, inbox, jobs, lost, troubles>>

(* The answer is an error: booked, and the pass ends; a file is replaced.     *)
PartRefused(k) ==
    /\ Trouble /\ Waits(k) /\ Book(loop.m, k, "failed")
    /\ loop' = IF k = "file" THEN loop ELSE AtRest
    /\ UNCHANGED <<outsideVars, inbox, jobs, wire, lost>>

(* No answer: a chunk stays as it was, a file is booked as unknown.  The part *)
(* may have arrived, and the process may be dead.                             *)
PartLost(k) ==
    /\ Trouble /\ Waits(k) /\ link[inbox[loop.m].from] = "up"
    /\ Sends(loop.m, k) \/ UNCHANGED wire
    /\ lost' = [lost EXCEPT ![loop.m][k] = @ + 1]
    /\ \/ /\ k = "file" /\ Book(loop.m, k, "unknown") /\ UNCHANGED loop
       \/ /\ loop' = AtRest /\ UNCHANGED parts
    /\ UNCHANGED <<outsideVars, inbox, jobs>>

(* The session turns out to be over.                                          *)
PartExpired(k) ==
    /\ Waits(k)
    /\ IF link[inbox[loop.m].from] # "up" THEN UNCHANGED troubles ELSE Trouble
    /\ link' = [link EXCEPT ![inbox[loop.m].from] = "expired"]
    /\ loop' = Unanswered(loop.m)
    /\ UNCHANGED <<standing, inbox, jobs, parts, wire, lost>>

(* Without a configured download address the answer ends here.                *)
NoAddress ==
    /\ Waits("link") /\ Book(loop.m, "link", "failed") /\ Ends(loop.m, "failed") /\ loop' = Turn
    /\ UNCHANGED <<outsideVars, jobs, wire, lost, troubles>>

Finish ==
    /\ loop.at = "send" /\ loop.left = << >>
    /\ Ends(loop.m, IF loop.job.state = "completed" THEN "completed" ELSE "failed")
    /\ loop' = IF inbox[loop.m].state = "pending" THEN [loop EXCEPT !.at = "pending"] ELSE Turn
    /\ UNCHANGED <<outsideVars, jobs, parts, wire, lost, troubles>>

(* The process ends and starts again; the account of the active file becomes  *)
(* active with it, another one stops when the end was orderly.                *)
GatewayRestarts ==
    /\ Trouble /\ loop' = AtRest
    /\ \E orderly \in BOOLEAN :
          link' = [p \in Users |-> IF link[p] \notin {"expired", "lapsed"} THEN link[p]
                                   ELSE IF standing[p] = "owner" THEN "up"
                                   ELSE IF orderly THEN "lapsed" ELSE link[p]]
    /\ UNCHANGED <<standing, inbox, jobs, parts, wire, lost>>

DeliveryStep ==
    \/ BeginPass \/ Authorize \/ Submit \/ SubmitRefused \/ Incompatible \/ MarkSubmitted \/ EndPhase
    \/ TakeLocks \/ SkipSent \/ UseLink \/ NoAddress \/ Finish \/ PollFails
    \/ \E m \in Mail : Poll(m)
    \/ \E k \in Part : SendPart(k) \/ PartRefused(k) \/ PartLost(k) \/ PartExpired(k)

DeliveryNext ==
    \/ DeliveryStep \/ StopPollers \/ GatewayRestarts
    \/ \E m \in Mail, p \in Users : StoreMail(m, p)
    \/ \E m \in Mail : JobDoubted(m)
    \/ \E m \in Mail, state \in {"completed", "failed"}, file \in BOOLEAN :
           JobEnds(m, state, file) \/ JobReviewed(m, state, file)
    \/ \E p \in Users : DirectoryChanges(p) \/ LinkExpires(p) \/ Relogin(p)

(* The loop runs while the process does, and jobs end, perhaps in doubt;      *)
(* nobody has to review them.                                                 *)
DeliveryFairness ==
    /\ WF_deliveryVars(DeliveryStep)
    /\ \A m \in Mail : WF_deliveryVars(JobEnds(m, "completed", FALSE))

DeliverySpec == DeliveryInit /\ [][DeliveryNext]_deliveryVars

(* ---- properties ----------------------------------------------------------- *)

(* A part reaches the person twice only if the outcome of a send of it was    *)
(* never learnt: over refusals, expired sessions, restarts and passes that    *)
(* broke off (prepare_chunk, prepare_artifact).  A file and its link both     *)
(* arrive only if the file's fate was unknown.  A message that is completed   *)
(* was answered in full: its job completed, every chunk of the text arrived,  *)
(* and the file or its link (_send_completed_job).                            *)
DeliveredOnce ==
    /\ \A m \in Mail :
        /\ \A k \in Part : wire[m][k] <= 1 + lost[m][k]
        /\ wire[m]["file"] > 0 /\ wire[m]["link"] > 0 => lost[m]["file"] > 0
    /\ \A m \in In("completed") :
        /\ jobs[m].state = "completed"
        /\ \A k \in ToSet(Texts) : wire[m][k] > 0
        /\ jobs[m].file => wire[m]["file"] + wire[m]["link"] > 0

(* Nothing is sent for a person who is suspended or removed, whenever that    *)
(* happened, and no job runs with more authority than the message came with   *)
(* (authorize_stored_message: without ever upgrading its stored authority).   *)
OnlyForTheEntitled ==
    [][/\ wire' # wire => standing[inbox[loop.m].from] \in Active
       /\ \A m \in Mail : jobs[m].state = "none" /\ jobs'[m].profile = "owner"
             => inbox[m].profile = "owner" /\ standing[inbox[m].from] = "owner"]_deliveryVars

(* A message that was handed in under one profile and is handed in again      *)
(* under another is refused for ever, and so is every message behind it.      *)
Conflict == \E m \in In("pending") : /\ jobs[m].state # "none"
                                     /\ standing[inbox[m].from] \in Active
                                     /\ jobs[m].profile # Effective(m)

(* Every message ends, completed or failed, once sessions come to stay and no *)
(* message stands in conflict, whatever was lost or refused and wherever the  *)
(* process died; only a removed member's message, whose account is gone, may  *)
(* stay submitted.                                                            *)
EveryMessageEnds ==
    (<>[](\A p \in Users : link[p] # "expired") /\ <>[](~ Conflict)) =>
        \A m \in Mail : inbox[m].state \in {"pending", "submitted"}
            ~> (inbox[m].state \in {"completed", "failed"} \/ standing[inbox[m].from] = "removed")
=============================================================================
