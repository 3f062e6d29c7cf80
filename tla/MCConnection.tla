---------------------------- MODULE MCConnection ----------------------------
(* Clients configured in any way, stopped only at the prompt, anywhere, or    *)
(* while they send their keys.                                               *)
EXTENDS Connection

AnyConf == [Client -> BOOLEAN]
NoSync == {[c \in Client |-> FALSE]}

AtPromptOrAnywhere == {{"id_mod"}, Stage}
Never == {{}}
AtKeys == {{"enc_sk"}}

=============================================================================
