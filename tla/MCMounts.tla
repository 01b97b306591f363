------------------------------ MODULE MCMounts ------------------------------
(* Small instances of Mounts.                                              *)
EXTENDS Mounts

Named == Kinds \cup {"gradle-plugins", "google-maven", "corp-a", "corp.a", "ghost"}
Token ==
  [n \in Named |-> CASE n \in {"corp-a", "corp.a"} -> "CORP_A"
                     [] n = "gradle-plugins" -> "GRADLE_PLUGINS"
                     [] n = "google-maven" -> "GOOGLE_MAVEN"
                     [] OTHER -> n]
Bad == {".", ".."}
Settings == {"cooldown", "overrides", "max-artifact-size"}
KindDefaults == [k \in Kinds |-> [f \in Settings |-> "built-in"]]
Unset == [f \in Settings |-> None]

Plain ==
  [disabled |-> {}, path |-> [k \in Kinds |-> <<k>>], specs |-> [k \in Kinds |-> <<>>],
   noDefaultMounts |-> FALSE, metrics |-> FALSE, ui |-> FALSE,
   general |-> [Unset EXCEPT !["cooldown"] = "general"],
   registry |-> [k \in Kinds |-> Unset],
   upstream |-> [k \in Kinds |-> "public"],
   secondary |-> [crates |-> "public", npm |-> None, pypi |-> "public", maven |-> None],
   proxyUrl |-> [k \in Kinds |-> None], fileHosts |-> "files",
   reverse |-> None, listen |-> "0.0.0.0", basic |-> <<>>, headers |-> <<>>]

(* Where npm is put, and who else is there.                                *)
Layouts ==
  {[Plain EXCEPT !.path["npm"] = p, !.disabled = d, !.ui = u, !.metrics = u] :
     p \in {<<"npm">>, <<"npm", "">>, <<"">>, <<"api", "x">>, <<"metrics">>, <<"maven", "in">>,
            <<"a", "", "b">>, <<"a", "..">>},
     d \in {{}, {"maven"}, Kinds \ {"npm"}}, u \in BOOLEAN}
  \cup {[Plain EXCEPT !.path["crates"] = <<"">>, !.disabled = Kinds \ {"crates"}, !.ui = TRUE]}

(* Extra mounts, among them ones that clash with others or are mistyped.   *)
At(path) == <<"path", path>>
Calls(name) == <<"name", name>>
Links(path) == <<"proxy-url", <<"ext", path>>>>
MavenSpecs ==
  {<<>>, <<<<Calls("corp-a")>>>>,
   <<<<Calls("corp-a"), Links(<<"corp-a">>), <<"cooldown", "spec">>>>, <<Calls("corp.a")>>>>,
   <<<<Calls("gradle-plugins"), <<"upstream", "mirror">>>>>>,
   <<<<Calls("npm"), At(<<"other">>)>>>>, <<<<Calls("maven"), At(<<"other">>)>>>>,
   <<<<Calls("corp-a"), At(<<"maven", "corp">>)>>>>, <<<<Calls("corp-a"), At(<<"deep", "">>)>>>>,
   <<<<Calls("corp-a"), At(<<"deep", "er">>)>>, <<Calls("corp.a"), At(<<"deep">>)>>>>,
   <<<<Calls("corp-a"), Calls("ghost")>>>>, <<<<At(<<"nameless">>)>>>>}
PypiSpecs ==
  {<<>>, <<<<Calls("corp.a"), <<"upstream", "mirror">>>>>>,
   <<<<Calls("corp.a"), <<"upstream", "mirror">>, <<"files", "mirror">>, <<"file-hosts", "cdn">>>>>>}

Typed ==
  {[l EXCEPT !.specs["maven"] = m, !.specs["pypi"] = p, !.noDefaultMounts = n,
             !.proxyUrl["maven"] = IF n THEN <<"ext", <<"maven">>>> ELSE None,
             !.registry["pypi"]["overrides"] = IF n THEN "list" ELSE None,
             !.basic = a[1], !.headers = a[2]] :
     l \in Layouts, m \in MavenSpecs, p \in PypiSpecs, n \in BOOLEAN,
     a \in {<<<<>>, <<>>>>, <<<<"corp-a">>, <<>>>>, <<<<"ghost">>, <<>>>>,
            <<<<"npm", "npm">>, <<>>>>, <<<<"npm">>, <<<<"npm", "Authorization">>>>>>,
            <<<<>>, <<<<"corp.a", "X-Team">>, <<"npm", "Authorization">>>>>>}}

(* What is exported for CORP_A, npm and a mount that is nowhere.           *)
NoEnv == [headers |-> [t \in Tokens |-> {}], user |-> [t \in Tokens |-> None],
          password |-> [t \in Tokens |-> FALSE]]
Pair(t, user) == [NoEnv EXCEPT !.user[t] = user, !.password[t] = TRUE]
Exported ==
  {NoEnv, Pair("CORP_A", "user"), Pair("npm", "with:colon"),
   [NoEnv EXCEPT !.user["npm"] = "user"], [NoEnv EXCEPT !.headers["ghost"] = {"X-Team"}],
   [NoEnv EXCEPT !.headers["CORP_A"] = Headers]}

ASSUME LinksTold
=============================================================================
