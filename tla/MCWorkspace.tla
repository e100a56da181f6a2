---------------------------- MODULE MCWorkspace -----------------------------
(* Two env files, overrides that the generators accept and ones they do not, *)
(* quoted values, two terminals, two programs, a short history.              *)
EXTENDS Workspace, TLC

Sec(of, n) == V("secret", of, n)

ProdUrls == [k \in Stores |-> Store("remote")] @@
            [k \in {"PUBLIC_BASE_URL", "CORS_ORIGIN"} |-> Http("remote", 443)]

MCOverrides ==
  {NoFile, ProdUrls,
   ProdUrls @@ "JWT_SECRET" :> Sec("medium", 100),
   "NUTTOO_API_PORT" :> Port(9000) @@ "JWT_SECRET" :> [Sec("long", 100) EXCEPT !.quote = "single"],
   ProdUrls @@ "REDIS_URL" :> V("word", "remote", 0) @@ "NUTTOO_WEB_PORT" :> Port(70000),
   "PUBLIC_BASE_URL" :> Http("remote", 443) @@ "CORS_ORIGIN" :> Http("localhost", 5173)
     @@ "NUTTOO_NAME" :> [V("word", "Nuttoo", 0) EXCEPT !.quote = "inner"]}

MCEdits == {[k \in {"NODE_ENV"} |-> V("word", "Production", 0)],
            [k \in Stores |-> Empty],
            "JWT_SECRET" :> Sec("short", 101)}

MCProcessEnvs == {NoFile, "JWT_SECRET" :> Sec("short", 102)}

MCSubjects == {[type |-> "feat", breaking |-> TRUE], [type |-> "fix", breaking |-> FALSE],
               [type |-> "other", breaking |-> FALSE]}

MCCommands == [f \in Families |-> IF f \in {"env", "ci"} THEN 2 ELSE 3]
=============================================================================
