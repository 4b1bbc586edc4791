--------------------------- MODULE MCHealthCheck ---------------------------
(***************************************************************************)
(* Small instances of the health check for TLC.                            *)
(***************************************************************************)
EXTENDS HealthCheck, TLC

Id(group, kind, name) ==
    [group |-> group, kind |-> kind, namespace |-> "ns", name |-> name]

Ref(apiVersion, kind, namespace, name) ==
    [apiVersion |-> apiVersion, kind |-> kind, namespace |-> namespace, name |-> name]

Job == Id("batch", "Job", "migrate")
Deployment == Id("apps", "Deployment", "web")
Run == Id("krm", "KCLRun", "site")

AllObjects == {Job, Deployment, Run}
JobAndDeployment == {Job, Deployment}

Groups == ("apps/v1" :> "apps") @@ ("batch/v1" :> "batch") @@ ("krm/v1" :> "krm")
              @@ ("a/b/c" :> Malformed)

PreferredVersions == [kind \in {"Job", "Deployment", "KCLRun"} |->
    CASE kind = "Job" -> "batch/v1" [] kind = "Deployment" -> "apps/v1" [] OTHER -> "krm/v1"]

\* A Deployment without an apiVersion, and the run itself.
Qualified ==
    {Ref("batch/v1", "Job", "ns", "migrate"), Ref(Omitted, "Deployment", "ns", "web"),
     Ref("krm/v1", "KCLRun", "ns", "site")}

PartlyMalformed ==
    {Ref("batch/v1", "Job", "ns", "migrate"), Ref("a/b/c", "Job", "ns", "other")}

\* A reference without a namespace.
Unqualified == {Ref("apps/v1", "Deployment", Omitted, "web")}

References == {{}, Qualified, PartlyMalformed, Unqualified}
=============================================================================
