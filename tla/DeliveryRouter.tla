---------------------------- MODULE DeliveryRouter ----------------------------
(****************************************************************************)
(* The identity-aware choice of approval channels (delivery/router.py): a   *)
(* library the approvals service may call and does not call yet.            *)
(*                                                                          *)
(* A text is [text, padded]: padded with blanks or not, "" for an empty one *)
(* and for none.  Texts are compared without regard to case.                *)
(****************************************************************************)
EXTENDS Selection

OperatorIdentities == {"todd@surgexi.com", "todd"}

Blank == [text |-> "", padded |-> FALSE]

is_operator(user) == user.text \in OperatorIdentities

\* The surface is not stripped, the user is.
InChat(identity) == identity.surface = [text |-> "pulsepoint-chat", padded |-> FALSE]

\* Slip: the actor is looked at before the surface.
ActorBeforeSurface(identity, actor, requires_human) ==
    CASE actor = "agent" /\ ~requires_human -> <<"log_only">>
      [] ~(actor = "agent" /\ ~requires_human) /\ InChat(identity) /\ is_operator(identity.user) ->
           <<"pulsepoint_chat", "geopro", "email">>
      [] OTHER -> <<"geopro", "email">>

choose_channels(identity, actor, requires_human) ==
    CASE InChat(identity) /\ is_operator(identity.user) -> <<"pulsepoint_chat", "geopro", "email">>
      [] ~InChat(identity) /\ actor = "agent" /\ ~requires_human -> <<"log_only">>
      [] OTHER -> <<"geopro", "email">>

\* Where a channel leads, "" where nothing is configured for it.
Target(channel, identity, session_id, operator_email) ==
    CASE channel = "pulsepoint_chat" -> session_id
      [] channel = "geopro"   -> IF identity.geopro_target.text = "" THEN "todd"
                                 ELSE identity.geopro_target.text
      [] channel = "email"    -> operator_email
      [] channel = "log_only" -> IF identity.surface = Blank THEN "default" ELSE "surface"

\* Channels without a target are dropped; log_only stands in when none is left.
choose_targets(identity, actor, requires_human, session_id, operator_email) ==
    LET To(channel) == Target(channel, identity, session_id, operator_email)
        channels == choose_channels(identity, actor, requires_human)
        reached == Kept(channels, {i \in DOMAIN channels : To(channels[i]) # ""})
    IN  IF reached = <<>> THEN <<[channel |-> "log_only", target |-> "fallback"]>>
        ELSE [i \in DOMAIN reached |-> [channel |-> reached[i], target |-> To(reached[i])]]

=============================================================================
