----------------------------- MODULE Structured -----------------------------
(***************************************************************************)
(* The scopes of the library together: task_scope_t, which a coroutine     *)
(* starts children in, and the server, whose serve() is built on one.      *)
(***************************************************************************)
EXTENDS TaskScope, HttpServer

\* No child outlives the scope it was started in: neither the children of a task scope
\* nor the connections of the server, whose serve() is built on one.
ChildrenContained == ScStructured /\ HvStructured

=============================================================================
