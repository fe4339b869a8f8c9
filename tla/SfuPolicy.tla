------------------------------ MODULE SfuPolicy ------------------------------
(***************************************************************************)
(* deriveSfuPermissions: what a participant may do on the SFU, from the    *)
(* meeting's mode and encryption policy, the two roles and the E2EE media  *)
(* membership.                                                             *)
(***************************************************************************)
MeetingModes == {"video_conference", "audio_call", "live"}
ProductRoles == {"host", "participant", "presenter", "viewer"}
SfuRoles == {"host", "speaker", "viewer"}
E2eePolicies == {"required", "optional", "disabled"}

Permissions == {"room:join", "transport:create:send", "transport:create:recv",
                "media:produce:audio", "media:produce:video", "media:consume",
                "data:produce", "data:consume", "e2ee:enable", "room:moderate",
                "recording:manage"}

PolicyInput == [mode : MeetingModes, product : ProductRoles, sfu : SfuRoles,
                e2ee : E2eePolicies, member : BOOLEAN]

\* assertRoleCombination.
RoleCombination(i) ==
    \/ i.product = "host" /\ i.sfu = "host"
    \/ i.product = "viewer" /\ i.sfu = "viewer" /\ i.mode = "live"
    \/ i.product = "presenter" /\ i.sfu = "speaker" /\ i.mode = "live"
    \/ i.product = "participant" /\ i.sfu = "speaker" /\ i.mode # "live"

\* The inputs for which deriveSfuPermissions does not throw.
Admitted(i) == RoleCombination(i) /\ (i.e2ee = "required" => i.member)

MayPublish(i) == i.product # "viewer"

MayPublishVideo(i) ==
    /\ MayPublish(i)
    /\ i.mode # "audio_call"
    /\ i.mode = "live" => i.product \in {"host", "presenter"}

\* The permissions of an admitted input.
DeriveSfuPermissions(i) ==
    {"room:join", "transport:create:recv", "media:consume"}
    \cup (IF MayPublish(i)
          THEN {"transport:create:send", "media:produce:audio"} ELSE {})
    \cup (IF MayPublishVideo(i) THEN {"media:produce:video"} ELSE {})
    \cup (IF i.product = "host" THEN {"room:moderate"} ELSE {})
    \cup (IF i.e2ee # "disabled" /\ i.member THEN {"e2ee:enable"} ELSE {})
=============================================================================
