---------------------------- MODULE BusComponent ----------------------------
(* A component or system on the bus: how a message it takes becomes answers, *)
(* dead letters and journal entries (base_component.py, base_system.py,      *)
(* base_async_component.py, shared/base_system.py, base_gateway.py), each of *)
(* them checked by the security monitor when the bus is a SafeBus            *)
(* (safe_bus.py, security_monitor.py), and journalled by AnalyticsJournal.   *)
EXTENDS Naturals, FiniteSets, Sequences, TLC

CONSTANTS Messages, BatchSize

Classes == {"component", "system", "shared", "async", "gateway"}
Actions == {"none", "unknown", "known"}         \* a message's action, to its receiver
Results == {"value", "nothing", "raised"}       \* what a handler does
Sends == {"proxied", "response", "failure", "error", "dead_letter", "log_event"}
Policies == {Sends, Sends \ {"error"}, Sends \ {"proxied", "log_event"}}

VARIABLES
    class,          \* the base class of the component
    safe,           \* its bus is a SafeBus
    action, wants,  \* of each message: its action, and whether it has a reply_to
    place,          \* of each message: inbox, handling, asked, approved, denied or done
    outbox,         \* what its handler has still to send
    sent,           \* what went out for it (history)
    policy,         \* the sends the monitor's check_message allows now
    allowed,        \* sends that were allowed while the check of them was open (history)
    arrived, buffer, inHand, posted, lost, journal

componentVars == <<class, safe, action, wants>>
messageVars == <<place, outbox, sent, allowed>>
journalVars == <<arrived, buffer, inHand, posted, lost, journal>>
vars == <<componentVars, messageVars, policy, journalVars>>

Journal == INSTANCE AnalyticsJournal WITH Events <- Messages

Init ==
    /\ class \in Classes /\ safe \in BOOLEAN
    /\ action \in [Messages -> Actions] /\ wants \in [Messages -> BOOLEAN]
    /\ place = [m \in Messages |-> "inbox"]
    /\ outbox = [m \in Messages |-> <<>>]
    /\ sent = [m \in Messages |-> <<>>]
    /\ allowed = [m \in Messages |-> {}]
    /\ policy \in Policies
    /\ Journal!JournalInit
-----------------------------------------------------------------------------
(* _handle_message.                                                          *)

When(p, send) == IF p THEN <<send>> ELSE <<>>

\* The classes of the sdk send a dead letter when there is nobody to answer, those of
\* shared/ and the asyncio one do not.
DeadLetters == class \in {"component", "system", "gateway"}

Unknown(m) == When(wants[m], "error") \o When(~wants[m] /\ DeadLetters, "dead_letter")
Failed(m) == When(wants[m], "failure") \o When(~wants[m] /\ DeadLetters, "dead_letter")
Answered(m) == When(wants[m], "response")

\* A result that is no JSON is "raised" with MQTT, whose publish() raises inside the
\* try, and "nothing" with Kafka, whose publish() prints that and returns False.
Replied(m, res) ==
    CASE res = "value" -> Answered(m)
      [] res = "nothing" -> <<>>
      [] res = "raised" -> Failed(m)

\* JOURNAL_TOPIC is set, and the classes that know it write each handled action to it.
Journalled == <<"log_event">>

\* A bug to check AnsweredOnce against: what the journal raises reaches the except.
SystemSendsJournalRaises(m, res) == Replied(m, res) \o Failed(m)

ComponentSends(m, res) == Replied(m, res) \o Journalled
SystemSends(m, res) == Replied(m, res) \o Journalled
SharedSends(m, res) == Replied(m, res)
AsyncSends(m, res) == Replied(m, res)
\* A proxied call that fails, or is not answered, is a result like any other; one that
\* raises, or is answered with success and no payload, raises in the handler.
GatewaySends(m, res) == <<"proxied">> \o SystemSends(m, res)

Handled(m, res) ==
    CASE class = "component" -> ComponentSends(m, res)
      [] class = "system" -> SystemSends(m, res)
      [] class = "shared" -> SharedSends(m, res)
      [] class = "async" -> AsyncSends(m, res)
      [] class = "gateway" -> GatewaySends(m, res)

Left(m, sends) ==
    /\ outbox' = [outbox EXCEPT ![m] = sends]
    /\ place' = [place EXCEPT ![m] = IF sends = <<>> THEN "done" ELSE "handling"]

Handle(m) ==
    /\ place[m] = "inbox"
    /\ \/ action[m] = "none" /\ Left(m, <<>>)
       \/ action[m] = "unknown" /\ Left(m, Unknown(m))
       \/ action[m] = "known" /\ \E res \in Results : Left(m, Handled(m, res))
    /\ UNCHANGED <<componentVars, sent, allowed, policy, journalVars>>
-----------------------------------------------------------------------------
(* publish() and request() of the component's bus.                           *)

Item(m) == Head(outbox[m])
Dequeue(m) == Left(m, Tail(outbox[m]))

\* The bus takes it, or publish() returns False, which nobody looks at.
GoesOut(m) ==
    \/ /\ sent' = [sent EXCEPT ![m] = Append(@, Item(m))]
       /\ \/ /\ Item(m) = "log_event" /\ Journal!Arrive(m)
          \/ /\ Item(m) # "log_event" \/ journal \in {"stopped", "over"}
             /\ UNCHANGED journalVars
    \/ UNCHANGED <<sent, journalVars>>

\* SafeBus lets answers and dead letters pass.  An error is an answer by respond(),
\* with an action of its own, and is checked.
Skipped == {"response", "failure", "dead_letter", "security_blocked"}

Publish(m) ==
    /\ place[m] = "handling"
    /\ ~safe \/ Item(m) \in Skipped
    /\ GoesOut(m)
    /\ Dequeue(m)
    /\ UNCHANGED <<componentVars, allowed, policy>>

\* _check: a request to the monitor, answered by the policy of that moment ...
Ask(m) ==
    /\ place[m] = "handling"
    /\ safe /\ Item(m) \notin Skipped
    /\ place' = [place EXCEPT ![m] = "asked"]
    /\ allowed' = [allowed EXCEPT ![m] = @ \cup ({Item(m)} \cap policy)]
    /\ UNCHANGED <<componentVars, outbox, sent, policy, journalVars>>

SecurityCheck(m) ==
    /\ place[m] = "asked"
    /\ place' = [place EXCEPT ![m] = IF Item(m) \in policy THEN "approved" ELSE "denied"]
    /\ UNCHANGED <<componentVars, outbox, sent, allowed, policy, journalVars>>

\* A bug to check NothingUnchecked against: a monitor that is away allows everything.
CheckTimeoutOpen(m) ==
    /\ place[m] = "asked"
    /\ place' = [place EXCEPT ![m] = "approved"]
    /\ UNCHANGED <<componentVars, outbox, sent, allowed, policy, journalVars>>

\* ... or by nobody, and then it is denied.
CheckTimeout(m) ==
    /\ place[m] = "asked"
    /\ place' = [place EXCEPT ![m] = "denied"]
    /\ UNCHANGED <<componentVars, outbox, sent, allowed, policy, journalVars>>

Approved(m) ==
    /\ place[m] = "approved"
    /\ GoesOut(m)
    /\ Dequeue(m)
    /\ UNCHANGED <<componentVars, allowed, policy>>

\* A publish that is denied becomes a dead letter of SafeBus, a request returns None.
Denied(m) ==
    /\ place[m] = "denied"
    /\ IF Item(m) = "proxied"
       THEN UNCHANGED sent
       ELSE sent' = [sent EXCEPT ![m] = Append(@, "security_blocked")]
    /\ Dequeue(m)
    /\ UNCHANGED <<componentVars, allowed, policy, journalVars>>

\* The policy of a monitor may change while it is asked and its answers are on their
\* way; a change while nobody asks is one right after the next question.
ChangePolicy ==
    /\ \E m \in Messages : place[m] = "asked"
    /\ \E p \in Policies :
        /\ policy' = p
        /\ allowed' = [m \in Messages |->
                IF place[m] = "asked" THEN allowed[m] \cup ({Item(m)} \cap p) ELSE allowed[m]]
    /\ UNCHANGED <<componentVars, place, outbox, sent, journalVars>>
-----------------------------------------------------------------------------
Outgoing == \E m \in Messages :
    Publish(m) \/ Ask(m) \/ CheckTimeout(m) \/ Approved(m) \/ Denied(m)
Logging == Journal!JournalStep /\ UNCHANGED <<componentVars, messageVars, policy>>

Next ==
    \/ \E m \in Messages : Handle(m) \/ SecurityCheck(m)
    \/ Outgoing \/ ChangePolicy \/ Logging

Spec == Init /\ [][Next]_vars
-----------------------------------------------------------------------------
TypeOK ==
    /\ class \in Classes /\ safe \in BOOLEAN
    /\ place \in [Messages -> {"inbox", "handling", "asked", "approved", "denied", "done"}]
    /\ policy \subseteq Sends /\ buffer \subseteq Messages /\ lost \subseteq Messages

Ends == {"response", "failure", "error", "dead_letter"}
EndsAt(m) == {i \in 1 .. Len(sent[m]) : sent[m][i] \in Ends}

\* A message is answered at most once, whatever its handler, the journal and the
\* monitor do after the answer, and only to a sender that asked; one that did not ask
\* leaves at most one dead letter.
AnsweredOnce ==
    \A m \in Messages : \A i, j \in EndsAt(m) :
        i = j /\ (sent[m][i] = "dead_letter") = ~wants[m]

\* On a SafeBus nothing but an answer or a dead letter goes out that the monitor's
\* policy did not allow at some time while it was being asked.
NothingUnchecked ==
    safe => \A m \in Messages : \A i \in 1..Len(sent[m]) :
                sent[m][i] \in Skipped \cup allowed[m]

\* An event that was sent to the journal is in exactly one place while the journal
\* runs: not handled, in the buffer, in the hands of one thread, lost with a failed
\* post, or posted, once.  After stop() it is in one place at most.
EventsKept ==
    \A e \in Messages :
        LET holders == {t \in Journal!Threads : e \in inHand[t]}
            In(S) == IF e \in S THEN 1 ELSE 0
            places == Cardinality(holders) + posted[e] + In(arrived) + In(buffer) + In(lost)
        IN  IF journal = "running"
            THEN places = IF \E i \in 1 .. Len(sent[e]) : sent[e][i] = "log_event" THEN 1 ELSE 0
            ELSE places \in {0, 1}

=============================================================================
