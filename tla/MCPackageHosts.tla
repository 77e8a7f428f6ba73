--------------------------- MODULE MCPackageHosts ---------------------------
(* Core and three mods that may depend on each other, on themselves or on   *)
(* core, override its definition, refer to what is redirected or retired.   *)
(* A mod that becomes free may be less than one that was free before.       *)
EXTENDS PackageHosts

MCAlphabet == <<"alpha", "beta", "core", "zeta">>
MCIds == {"core:x", "core:y", "alpha:a", "zeta:z"}
MCNamespaceOf == [id \in MCIds |->
    CASE id = "alpha:a" -> "alpha" [] id = "zeta:z" -> "zeta" [] OTHER -> "core"]

Needs(p, after) == [to |-> p, after |-> after]
Manifest(deps, redirects, tombstones) ==
    [deps |-> deps, redirects |-> redirects, tombstones |-> tombstones]
Plain(deps) == Manifest(deps, <<>>, {})

MCManifestsOf ==
    [p \in Range(MCAlphabet) |->
        CASE p = "core" ->
               {Plain(<<>>), Plain(<<Needs("alpha", FALSE)>>),
                Manifest(<<>>, "core:y" :> "core:x", {})}
          [] p = "alpha" ->
               {Plain(<<Needs("core", TRUE), Needs("zeta", FALSE)>>),
                Plain(<<Needs("beta", TRUE)>>),
                Manifest(<<>>, "alpha:a" :> "core:y", {})}
          [] p = "beta" -> {Plain(<<>>)}
          [] p = "zeta" ->
               {Plain(<<Needs("zeta", FALSE)>>),
                Plain(<<Needs("core", FALSE), Needs("alpha", FALSE)>>),
                Manifest(<<Needs("core", TRUE)>>, "zeta:z" :> "alpha:a", {}),
                Manifest(<<>>, <<>>, {"zeta:z"})}]

Source(f) == f @@ [id \in MCIds |-> Absent]
MCSourcesOf ==
    [p \in Range(MCAlphabet) |->
        CASE p = "core" -> {Source("core:x" :> {}), Source("core:x" :> {"core:y"})}
          [] p = "alpha" ->
               {Source("alpha:a" :> {"core:x"}), Source("core:x" :> {"zeta:z"})}
          [] p = "beta" -> {Source(<<>>)}
          [] p = "zeta" ->
               {Source(<<>>), Source("zeta:z" :> {"core:x"}),
                Source("core:x" :> {"alpha:a"} @@ "alpha:a" :> {})}]

MCRootLists == {<<"core", "zeta", "beta", "alpha">>, <<"core", "alpha">>}
=============================================================================
