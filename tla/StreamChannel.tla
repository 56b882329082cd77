---------------------------- MODULE StreamChannel ----------------------------
(***************************************************************************)
(* How a client gets a connection (base/stream_channel.cc,                  *)
(* base/util/grpc_helpers.cc, base/util/auth_helpers.cc): the channel, and  *)
(* the context of an rpc with its stream name and ID token.  No state.      *)
(***************************************************************************)

CONSTANT Credentials  \* states GOOGLE_APPLICATION_CREDENTIALS may be in

ASSUME CredentialsAssumption ==
    Credentials \subseteq {"unset", "unreadable", "no client_email", "key file"}

\* Strings are told apart by being empty; certificates by being readable.
Text == {"", "given"}
Connections == [target_address : {"", "a", "b"}, stream_name : {"", "s", "t"},
                ssl_domain_name : Text, ssl_root_cert_path : {"", "readable", "missing"},
                authenticate_with_google : BOOLEAN, use_insecure_channel : BOOLEAN]

\* CreateGrpcChannel: a secure channel needs the contents of the root
\* certificate; an insecure one is always made, whatever its address.
ChannelMade(c) == c.use_insecure_channel \/ c.ssl_root_cert_path = "readable"

\* GetIdToken: the rpc to the IAM service returns a token or fails.
GetIdToken == {"token", "INTERNAL"}

\* GetIdTokenWithDefaultServiceAccount
GetIdTokenWithDefaultServiceAccount(credentials) ==
    CASE credentials = "unset"           -> {"INTERNAL"}
      [] credentials = "unreadable"      -> {"INVALID_ARGUMENT"}
      [] credentials = "no client_email" -> {"INTERNAL"}
      [] credentials = "key file"        -> GetIdToken

\* StreamChannel::MakeClientContext never fails: without an ID token the rpc is
\* made without authorization.  Says whether the context has what the ingress
\* asks for.
MakeClientContext(c) ==
    IF c.authenticate_with_google
    THEN {t = "token" : t \in UNION {GetIdTokenWithDefaultServiceAccount(k) : k \in Credentials}}
    ELSE {TRUE}
=============================================================================
