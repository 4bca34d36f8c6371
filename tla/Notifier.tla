------------------------------ MODULE Notifier ------------------------------
(***************************************************************************)
(* The notifiers an alert is broadcast to (janitor/notifications): the     *)
(* list MultiNotifier fans out over, which of them can send, and what the  *)
(* operator has been sent.                                                 *)
(***************************************************************************)
EXTENDS Registry

CONSTANTS
    Notifiers      \* the enabled notifiers, in the order main builds them

NotifierNames == {"discord", "telegram"}

ASSUME NotifierAssumption ==
    /\ Notifiers \in Seq(NotifierNames)
    /\ \A p, q \in 1..Len(Notifiers) : Notifiers[p] = Notifiers[q] => p = q

Enabled == {Notifiers[p] : p \in 1..Len(Notifiers)}

VARIABLES
    ready,         \* the notifiers whose send_alert finds a channel to use
    delivered      \* history: alerts the operator received, by issue and notifier

notifierVars == <<ready, delivered>>

NothingDelivered == [p \in Ids \X NotifierNames |-> 0]

\* main awaits TelegramBot.start, which builds the application, before it
\* starts the scheduler; DiscordBot.start only creates a task, and its
\* channels stay None until the gateway reports on_ready.
ReadyAtStart == Enabled \cap {"telegram"}

\* on_ready: the Discord channels are looked up.
OnReady ==
    /\ "discord" \in Enabled \ ready
    /\ ready' = ready \cup {"discord"}
    /\ UNCHANGED delivered

\* The message about issue i arrives at the operator through notifier n.
Deliver(i, n) == delivered' = [delivered EXCEPT ![<<i, n>>] = @ + 1]

NotifierTypeOK ==
    /\ ready \subseteq Enabled
    /\ delivered \in [Ids \X NotifierNames -> Nat]

=============================================================================
