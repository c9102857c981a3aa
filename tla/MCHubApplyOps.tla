----------------------------- MODULE MCHubApplyOps -----------------------------
(* Three ops in every assignment of a dozen typed operations to two principals,*)
(* sent in every batch of up to two, over one seed row.                        *)
EXTENDS HubApplyOps, TLC

CONSTANTS o1, o2, o3, s1, global, project, alpha, beta, secret, soon

Op(kind, ns, text, expiry, id, via, dep) ==
  [kind |-> kind, ns |-> ns, text |-> text, expiry |-> expiry,
   id |-> id, via |-> via, dep |-> dep]

MCCmds == (o1 :> {
    Op("add", None, beta, None, None, None, None),
    Op("add", project, alpha, soon, None, None, None),
    Op("update", project, beta, soon, s1, None, None)})
 @@ (o2 :> {
    Op("add", None, beta, None, None, None, None),
    Op("add", project, alpha, soon, None, None, None),
    Op("update", None, alpha, None, None, o1, o1),
    Op("update", project, beta, soon, s1, None, None)})
 @@ (o3 :> {
    Op("add", None, secret, None, None, None, o1),
    Op("update", None, beta, None, None, o1, None),
    Op("supersede", None, None, None, s1, None, o2),
    Op("invalidate", None, alpha, None, None, o2, None)})

MCPrincipals == {
  [known |-> TRUE, mutate |-> TRUE, scope |-> {global, project}],
  [known |-> TRUE, mutate |-> TRUE, scope |-> {project}]}

MCNear == (alpha :> {alpha}) @@ (beta :> {beta, alpha}) @@ (secret :> {secret})

MCSeedRows == s1 :> [ns |-> project, text |-> alpha, expiry |-> None]
================================================================================
