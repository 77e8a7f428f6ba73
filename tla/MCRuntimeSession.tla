-------------------------- MODULE MCRuntimeSession --------------------------
(* A core of two modules, the entry and a library, and two mods; the mods   *)
(* may need each other, replace the library, or claim what is not theirs.   *)
EXTENDS RuntimeSession

MCModules == {"core:main", "core:lib", "modA:a", "modB:b"}
MCPackages == {"core", "modA", "modB"}
MCNamespaceOf == [m \in MCModules |->
    CASE m = "modA:a" -> "modA" [] m = "modB:b" -> "modB" [] OTHER -> "core"]

Declare(package, module, needs, replaceable) ==
    [package |-> package, module |-> module, needs |-> needs, replaceable |-> replaceable]

CoreManifests ==
    { <<Declare("core", "core:main", mainNeeds, FALSE),
        Declare("core", "core:lib", libNeeds, replaceable)>> :
      mainNeeds \in {<<>>, <<"core:lib">>, <<"core:lib", "modB:b">>},
      libNeeds \in {<<>>, <<"core:main">>}, replaceable \in BOOLEAN }

ModAManifests ==
    { <<Declare("modA", "modA:a", needs, FALSE)>> \o more :
      needs \in {<<>>, <<"core:lib">>, <<"modB:b">>},
      more \in { <<>>,
                 <<Declare("modA", "core:lib", <<>>, FALSE)>>,
                 <<Declare("modA", "core:lib", <<"modA:a">>, TRUE)>>,
                 <<Declare("modA", "modB:b", <<>>, TRUE)>> } }

ModBManifests ==
    { <<>> } \cup
    { <<Declare("modB", "modB:b", needs, FALSE)>> \o more :
      needs \in {<<"core:lib">>, <<"modA:a", "core:lib">>},
      more \in { <<>>, <<Declare("modB", "core:lib", <<>>, TRUE)>> } }

MCGraphs == {c \o a \o b : c \in CoreManifests, a \in ModAManifests, b \in ModBManifests}

\* Where the graph is not the question.
OneGraph == { <<Declare("core", "core:main", <<>>, FALSE)>> }
=============================================================================
