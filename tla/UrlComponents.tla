---------------------------- MODULE UrlComponents ----------------------------
(***************************************************************************)
(* What the modifiers of a url promise: a url is a tuple of decoded        *)
(* components, and a modifier changes the component it is named after and  *)
(* no other.  The one exception is that a relative path becomes absolute   *)
(* when an authority is put in front of it.                                *)
(*                                                                         *)
(* A component that may be absent is <<>> when it is and <<text>> when it  *)
(* is present; the path is the sequence of its segments and a flag.        *)
(***************************************************************************)
EXTENDS Sequences

VARIABLE c

Empty ==
    [scheme |-> <<>>, authority |-> FALSE, user |-> <<>>, pass |-> <<>>, host |-> <<>>,
     port |-> <<>>, absolute |-> FALSE, segments |-> <<>>, query |-> <<>>, fragment |-> <<>>]

WithoutAuthority(d) ==
    [d EXCEPT !.authority = FALSE, !.user = <<>>, !.pass = <<>>, !.host = <<>>, !.port = <<>>]

WithAuthority(d) == [d EXCEPT !.authority = TRUE, !.absolute = @ \/ d.segments # <<>>]

\* A password without a user has an empty user in front of it.
WithPassword(d, s) ==
    [d EXCEPT !.pass = <<s>>, !.user = IF @ = <<>> THEN <<<<>>>> ELSE @]

Scheme == c' = [c EXCEPT !.scheme = c'.scheme]
User == c'.user # <<>> /\ c' = [WithAuthority(c) EXCEPT !.user = c'.user]
Password == c'.pass # <<>> /\ c' = WithPassword(WithAuthority(c), c'.pass[1])
RemovePassword == c' = [c EXCEPT !.pass = <<>>]
Userinfo ==
    /\ c'.user # <<>>
    /\ c' = [WithAuthority(c) EXCEPT !.user = c'.user, !.pass = c'.pass]
RemoveUserinfo == c' = [c EXCEPT !.user = <<>>, !.pass = <<>>]
Host == c' = [WithAuthority(c) EXCEPT !.host = c'.host]
Port == c'.port # <<>> /\ c' = [WithAuthority(c) EXCEPT !.port = c'.port]
RemovePort == c' = [c EXCEPT !.port = <<>>]
Authority ==
    c' = [WithAuthority(c) EXCEPT !.user = c'.user, !.pass = c'.pass,
                                  !.host = c'.host, !.port = c'.port]
RemoveAuthority == c' = WithoutAuthority(c)
RemoveOrigin == c' = [WithoutAuthority(c) EXCEPT !.scheme = <<>>]
Path ==
    /\ c' = [c EXCEPT !.absolute = c'.absolute, !.segments = c'.segments]
    /\ c.authority /\ c'.segments # <<>> => c'.absolute
Query == c' = [c EXCEPT !.query = c'.query]
Fragment == c' = [c EXCEPT !.fragment = c'.fragment]
Clear == c' = Empty

Init == c.authority \/ c = WithoutAuthority(c)

Next ==
    \/ Scheme \/ User \/ Password \/ RemovePassword \/ Userinfo \/ RemoveUserinfo
    \/ Host \/ Port \/ RemovePort \/ Authority \/ RemoveAuthority \/ RemoveOrigin
    \/ Path \/ Query \/ Fragment \/ Clear

Spec == Init /\ [][Next]_c
=============================================================================
