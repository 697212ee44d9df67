---------------------------- MODULE MCDispatcher ----------------------------
(* Instances of Dispatcher small enough for TLC. *)
EXTENDS Dispatcher, TLC

CONSTANTS ntfy, telegram

All == {"news", "summary"}

\* An edit removes ntfy and turns the news off, the next brings both back.
\* Telegram is left alone, and takes nothing but tests.
Reloads ==
    {[cap |-> 1, on |-> All, own |-> (ntfy :> "plain" @@ telegram :> "muted")],
     [cap |-> 1, on |-> {"summary"}, own |-> (ntfy :> "absent" @@ telegram :> "muted")]}

\* One target, nothing edited.
Steady == {[cap |-> 1, on |-> All, own |-> (ntfy :> "plain")]}
=============================================================================
