------------------------------ MODULE MCTelegram ----------------------------
(* The Telegram workflow on small instances: everything the reviewer can   *)
(* send, and somebody who is no reviewer and presses the button.           *)
EXTENDS TelegramWorkflow, TLC

CONSTANTS ann, bob, h1, h2

MCRepertoire ==
    {m \in Update : m.by = ann} \cup {m \in Update : m.by = bob /\ m.does = "claim"}

=============================================================================
