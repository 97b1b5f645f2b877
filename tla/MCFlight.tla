------------------------------ MODULE MCFlight ------------------------------
(* Instances of Flight for TLC. *)
EXTENDS Flight

MCNames  == {"Set-Cookie", "Content-Type", "X-Header"}
MCValues == {"v", "w"}
MCLists  == {<<"v">>, <<"w">>}

\* The second interceptor finds the closures of the first.
MCShares == {<<1, 2>>}

\* An empty connection, and one an outer handler has already put headers on.
MCInitialHeaders ==
  {NoHeaders, [NoHeaders EXCEPT !["Set-Cookie"] = <<"v">>, !["X-Header"] = <<"w">>]}

\* For the runs about control and termination the headers shrink to one name.
CookieOnly == {"Set-Cookie"}
OneValue   == {"v"}
OneList    == {<<"v">>}
NoShares   == {}
NoInitial  == {NoHeaders}
=============================================================================
