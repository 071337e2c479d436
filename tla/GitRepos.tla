------------------------------- MODULE GitRepos -------------------------------
(***************************************************************************)
(* How a repository is accessed (GitRepoGetter in                          *)
(* src/resources/git_repo.rs): which secrets a GitRepo or a ClusterGitRepo *)
(* reads, in which namespace, and which servers it trusts.                 *)
(*                                                                         *)
(* A repository is a record of its spec: schema, the kind of its URI; auth *)
(* and tls, None or records.  A secret is the set of its keys.             *)
(***************************************************************************)
EXTENDS Sequences

CONSTANT Absent    \* None in the code: an option that is not given

Kinds == {"GitRepo", "ClusterGitRepo"}

Schemas == {"http", "https", "ssh", "git"}

IsNamespaced(kind) == kind = "GitRepo"

\* Mutant: a GitRepo may name the namespace of its secrets.
SecretNsOfRef(kind, ref, secrets_ns) ==
    IF ref.namespace = Absent THEN secrets_ns ELSE ref.namespace

\* Where the secret of a repository is looked for.
SecretNs(kind, ref, secrets_ns) ==
    IF IsNamespaced(kind) \/ ref.namespace = Absent THEN secrets_ns ELSE ref.namespace

\* What the credentials need of the secret, in the order the map is filled.
Expected(auth_type) ==
    CASE auth_type = "Basic" -> <<"username", "password">>
      [] auth_type = "Token" -> <<"token">>
      [] auth_type = "Ssh"   -> <<"private_key">>

\* secret_keys: from a key of the secret to what it is expected to be.  Of two
\* expectations with the same key the later one stays.
SecretKeys(auth) ==
    LET expected == Expected(auth.type)
        last == expected[Len(expected)]
    IN [k \in {auth.keys[e] : e \in DOMAIN auth.keys} |->
           IF auth.keys[last] = k THEN last ELSE expected[1]]

\* get_secret_strings succeeds if the secret has all the keys.
HasKeys(secrets, ns, name, keys) ==
    <<ns, name>> \in DOMAIN secrets /\ keys \subseteq secrets[<<ns, name>>]

AuthReadable(kind, repo, secrets_ns, secrets) ==
    \/ repo.auth = Absent
    \/ HasKeys(secrets, SecretNs(kind, repo.auth.secret_ref, secrets_ns),
               repo.auth.secret_ref.name, DOMAIN SecretKeys(repo.auth))

\* The CA is read even if nothing is going to be verified.
CaReadable(kind, repo, secrets_ns, secrets) ==
    \/ repo.tls = Absent
    \/ repo.tls.ca_cert = Absent
    \/ HasKeys(secrets, SecretNs(kind, repo.tls.ca_cert, secrets_ns),
               repo.tls.ca_cert.name, {"ca.crt"})

\* auth_secrets is indexed by every expectation when the credentials are asked for.
CredentialsComplete(repo) ==
    \/ repo.auth = Absent
    \/ \A e \in DOMAIN repo.auth.keys : \E k \in DOMAIN SecretKeys(repo.auth) :
          SecretKeys(repo.auth)[k] = e

\* Mutant: a certificate that the custom CA does not confirm is taken as good.
CertificateOkLenient(repo, cert) ==
    repo.schema = "https" => cert = "system" \/ repo.tls # Absent

\* The certificate of the server is signed by the system's authorities, by the
\* authority in the secret, or by neither.  A certificate that the custom store
\* does not confirm is passed to the usual verification.
CertificateOk(repo, cert) ==
    repo.schema = "https" =>
        \/ cert = "system"
        \/ repo.tls # Absent /\ repo.tls.no_verify_ssl
        \/ repo.tls # Absent /\ repo.tls.ca_cert # Absent /\ cert = "custom"

\* fetch_repo_ref, up to what the server has to say to the reference.
FetchOutcome(kind, repo, secrets_ns, secrets, cert) ==
    CASE ~AuthReadable(kind, repo, secrets_ns, secrets) -> "error"
      [] ~CaReadable(kind, repo, secrets_ns, secrets)   -> "error"
      [] ~CertificateOk(repo, cert)                     -> "error"
      [] ~CredentialsComplete(repo)                     -> "panic"
      [] OTHER                                          -> "ok"
=============================================================================
