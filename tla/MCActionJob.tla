----------------------------- MODULE MCActionJob ------------------------------
EXTENDS ActionJob

Ref(name, namespace) == [name |-> name, namespace |-> namespace]

\* Both keys of a secret, or the same one for both.
Basic(ref) == [type |-> "Basic", secret_ref |-> ref,
               keys |-> [username |-> "user", password |-> "pass"]]

OneKey(ref) == [type |-> "Basic", secret_ref |-> ref,
                keys |-> [username |-> "pass", password |-> "pass"]]

AnAction(kind_, override, own) == [kind |-> kind_, override |-> override, own |-> own]

MCActions ==
    {AnAction("Action", Absent, {}),
     AnAction("Action", "GitRepo", {"mount", "destination", "workdir"}),
     AnAction("ClusterAction", "ClusterGitRepo", {})}

MCSpecs ==
    [k \in Kinds |->
        IF k = "GitRepo"
        THEN {[schema |-> "https", auth |-> Basic(Ref("auth", "infra")),
               tls |-> [no_verify_ssl |-> FALSE, ca_cert |-> Ref("ca", Absent)]],
              [schema |-> "https", auth |-> OneKey(Ref("auth", Absent)), tls |-> Absent]}
        ELSE {[schema |-> "https",
               auth |-> [type |-> "Token", secret_ref |-> Ref("auth", "infra"),
                         keys |-> [token |-> "pass"]],
               tls |-> [no_verify_ssl |-> TRUE, ca_cert |-> Absent]]}]

MCSecrets ==
    [s \in {<<"ns", "auth">>, <<"infra", "auth">>, <<"ns", "ca">>} |->
        IF s[2] = "ca" THEN {"ca.crt"} ELSE {"user", "pass"}]
=============================================================================
