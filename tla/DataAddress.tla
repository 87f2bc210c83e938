----------------------------- MODULE DataAddress -----------------------------
(***************************************************************************)
(* How the place where a dataset is served travels from one connector to   *)
(* the other: a dataset service describes it as a PublishInfo, a message   *)
(* carries it as a DataAddress (transfer_messages.go,                      *)
(* transfer_request_transitions.go, shared/transfer_types.go).             *)
(*                                                                         *)
(* A PublishInfo is a record of a url, an authentication type, a username  *)
(* and a password.  Of a url only the scheme is looked at.                 *)
(***************************************************************************)

Schemes == {"https", "http", "other"}
AuthenticationTypes == {"UNSPECIFIED", "BASIC", "BEARER"}

\* Mutant: a bearer token is taken from the username.
BearerByUsername(pi) ==
  [ endpointType |-> IF pi.url.scheme \in {"https", "http"} THEN pi.url.scheme ELSE "",
    endpoint |-> pi.url,
    endpointProperties |->
      CASE pi.auth = "BASIC" ->
             [username |-> pi.username, password |-> pi.password, authType |-> "basic"]
        [] pi.auth = "BEARER" -> [authorization |-> pi.username, authType |-> "bearer"]
        [] OTHER -> << >> ]

\* The properties are a function from names to values; without authentication
\* there are none.
publishInfoToDataAddress(pi) ==
  [ endpointType |-> IF pi.url.scheme \in {"https", "http"} THEN pi.url.scheme ELSE "",
    endpoint |-> pi.url,
    endpointProperties |->
      CASE pi.auth = "BASIC" ->
             [username |-> pi.username, password |-> pi.password, authType |-> "basic"]
        [] pi.auth = "BEARER" -> [authorization |-> pi.password, authType |-> "bearer"]
        [] OTHER -> << >> ]

\* ValidateAndMarshal: the endpoint type is required.  The validator does not
\* look into the properties.
ValidAddress(d) == d.endpointType # ""

\* No connector sends an authType other than these two.
DataAddressToPublishInfo(d) ==
  LET p == d.endpointProperties
      Info(auth, username, password) ==
        [url |-> d.endpoint, auth |-> auth, username |-> username, password |-> password]
  IN  IF "authType" \notin DOMAIN p THEN Info("UNSPECIFIED", "", "")
      ELSE IF p["authType"] = "bearer" THEN Info("BEARER", "", p["authorization"])
      ELSE Info("BASIC", p["username"], p["password"])

\* Two descriptions open the same data: what the authentication type does not
\* use may differ.
SameAccess(i, j) ==
  /\ i.url = j.url /\ i.auth = j.auth
  /\ i.auth = "BASIC" => i.username = j.username
  /\ i.auth # "UNSPECIFIED" => i.password = j.password

=============================================================================
