----------------------------- MODULE SingleStack -----------------------------
(***************************************************************************)
(* What SipManager promises about the Sofia signalling thread: the globals *)
(* of sofsip_loop() have at most one owner, a new owner takes them only    *)
(* when nobody holds them, and an owner that has let go never returns.     *)
(***************************************************************************)
CONSTANT Loops

VARIABLES
    owners,  \* the calls of sofsip_loop() in progress
    used     \* every call ever started

Init ==
    /\ owners = {} \/ \E l \in Loops : owners = {l}
    /\ used = owners

Start(l) ==
    /\ owners = {}
    /\ l \notin used
    /\ owners' = {l}
    /\ used' = used \cup {l}

Stop ==
    /\ owners # {}
    /\ owners' = {}
    /\ UNCHANGED used

Next == Stop \/ \E l \in Loops : Start(l)

Spec == Init /\ [][Next]_<<owners, used>>
=============================================================================
