-------------------------- MODULE StreamIdRequests --------------------------
(***************************************************************************)
(* One request of an app and one stream id that arrives at the router, to  *)
(* compare the three ways the code has of relating them: the 16 lookups of *)
(* the router, the bitwise test the app wrapper dispatches with, and what  *)
(* the arguments of jrtc_router_generate_stream_id ask for.                *)
(***************************************************************************)
EXTENDS StreamId

VARIABLES sid,    \* id of the stream a message arrives on
          req,    \* the registered request
          asked   \* what the last request was generated from, or NULL

vars == <<sid, req, asked>>

\* No message has arrived, and the request is a fresh id.
Init ==
  /\ sid = ZeroId
  /\ req = ZeroId
  /\ asked = NULL

\* jrtc_router_stream_id_set_*: an id can be filled in field by field.
SetField(f, v) ==
  /\ asked = NULL
  /\ sid = ZeroId
  /\ req' = [req EXCEPT ![f] = v]
  /\ UNCHANGED <<sid, asked>>

\* A fresh id is generated and, be it good or not, registered.
Asked(gen, path, name) ==
  /\ req = ZeroId
  /\ sid = ZeroId
  /\ req' = gen.id
  /\ asked' = [path |-> path, name |-> name]
  /\ UNCHANGED sid

\* JrtcApp::Init: generate the id of a stream and give up if that fails.
InitStream(fwd_dst, device_id, path, name, oom) ==
  LET gen == GenerateStreamId(fwd_dst, device_id, path, name, oom)
  IN  gen.res = 1 /\ Asked(gen, path, name)

\* jrtc_router_channel_register_req: register whatever id was generated.
RegisterReq(fwd_dst, device_id, path, name, oom) ==
  Asked(GenerateStreamId(fwd_dst, device_id, path, name, oom), path, name)

\* A message arrives, on a stream whose id is made up by its sender.
Arrive(s) ==
  /\ sid = ZeroId
  /\ sid' = s
  /\ UNCHANGED <<req, asked>>

Next ==
  \/ \E f \in Fields, v \in FieldValue : SetField(f, v)
  \/ \E fwd_dst, device_id \in FieldValue, path, name \in Names \cup {NULL},
        oom \in BOOLEAN :
          \/ InitStream(fwd_dst, device_id, path, name, oom)
          \/ RegisterReq(fwd_dst, device_id, path, name, oom)
  \/ \E s \in StreamIds : Arrive(s)

Spec == Init /\ [][Next]_vars

-----------------------------------------------------------------------------
\* A message the router routes for a request is never discarded by the wrapper:
\* JrtcApp::run finds the stream again with the bitwise matches_req.
RoutedIsDispatched == req \in Lookups(sid) => MatchesReq(sid, req)

\* Naming a path or a name never yields the wildcard, which would subscribe to
\* everything: a Bloom filter with fewer hash functions than bits cannot fill.
NamedIsNotAny ==
  asked # NULL =>
    /\ asked.path # NULL => req["stream_path"] # ANY
    /\ asked.name # NULL => req["stream_name"] # ANY

\* A request may name several destinations: the comment on fwd_dst says that it
\* "Can be a logical or of the JRTC_ROUTER_DEST_* values", as the wrapper's
\* bitwise test has it.  A message to one of them, whose other fields are those
\* of the request or wildcards in it, is then found by the lookups.
DestinationsAreOred ==
  /\ asked # NULL
  /\ Cardinality(sid["fwd_dst"]) = 1
  /\ sid["fwd_dst"] \subseteq req["fwd_dst"]
  /\ \A f \in Fields \ {"fwd_dst"} : req[f] \in {sid[f], ANY}
  => req \in Lookups(sid)
=============================================================================
