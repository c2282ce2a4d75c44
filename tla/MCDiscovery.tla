----------------------------- MODULE MCDiscovery -----------------------------
(***************************************************************************)
(* src/pkg with nested directories that come and go; go includes           *)
(* src/**/*.go, web src/pkg/** without src/pkg/nested/out, and shared      *)
(* excludes src/vendor.                                                    *)
(***************************************************************************)
EXTENDS Discovery, TLC

CONSTANTS top, src, pkg, nested, out, vendor, mainGo, page, genGo, go, web

MCParent ==
  (top :> top) @@ (src :> top) @@ (pkg :> src) @@ (vendor :> src) @@ (nested :> pkg)
  @@ (out :> nested) @@ (mainGo :> pkg) @@ (page :> nested) @@ (genGo :> out)

Glob(kind, at, names) == [at |-> at, kind |-> kind, names |-> names]

MCInclude ==
  (go :> {Glob("deep", src, {mainGo, genGo})}) @@ (web :> {Glob("tree", pkg, {})})
MCExclude == (go :> {}) @@ (web :> {Glob("tree", out, {})})
MCSharedExclude == {Glob("path", vendor, {})}

(* Two configurations that the runs of README.md are about               *)
OutByName == (go :> {}) @@ (web :> {Glob("path", out, {})})
SrcByName == {Glob("path", src, {})}

(* Every directory that is there holds a file of each task, or is a root.  *)
Populated ==
  {{top}, {top, src}, {top, src, vendor}, {top, src, pkg, mainGo},
   {top, src, pkg, nested, out, genGo}}

(* This configuration is one the theorems of DiscoveryProofs are about.    *)
ASSUME MCForeseen ==
  /\ SharedExclude = MCSharedExclude => RootsOutside
  /\ Exclude = MCExclude => ExcludesNoInputs
  /\ StartTrees = Populated => StartsForeseen
=============================================================================
