---------------------------- MODULE MCSfuAdmission ----------------------------
(* SfuAdmission on small instances, and the permission policy against what *)
(* the README of src/modules/sfu-admission says of it.                     *)
EXTENDS SfuAdmission

CONSTANTS c1, c2, k1

MCCalls == {c1, c2}
MCCommands == {k1}
-----------------------------------------------------------------------------
\* README, "Permissions": what each SFU role may send, by meeting mode.
Sends == {"transport:create:send", "media:produce:audio", "media:produce:video"}
TableRow(mode, sfu) ==
    CASE sfu = "viewer" -> {}
      [] mode = "audio_call" -> Sends \ {"media:produce:video"}
      [] OTHER -> Sends

Inputs == {i \in PolicyInput : Admitted(i)}

(***************************************************************************)
(* The permissions derived from mode and product role are the rows of the  *)
(* README's table, which is stated over the SFU role: the role check makes *)
(* the two agree.  Nothing outside the vocabulary is granted and only a    *)
(* host moderates.  "Aucun downgrade implicite en clair n'existe": where   *)
(* encryption is required every admission carries e2ee:enable.             *)
(***************************************************************************)
ASSUME TableHolds ==
    \A i \in Inputs :
       /\ DeriveSfuPermissions(i) \cap Sends = TableRow(i.mode, i.sfu)
       /\ DeriveSfuPermissions(i) \subseteq Permissions
       /\ "room:moderate" \in DeriveSfuPermissions(i) => i.sfu = "host"
       /\ i.e2ee = "required" => "e2ee:enable" \in DeriveSfuPermissions(i)
=============================================================================
