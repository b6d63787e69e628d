------------------------------ MODULE Release ------------------------------
(***************************************************************************)
(* How a version reaches the installed copies: one maintainer's make       *)
(* commands (cmd/build-pkg, cmd/appcast, cmd/publish, cmd/cask) and the    *)
(* distribution they publish to (infra/cloudformation-updates.yaml).       *)
(*                                                                         *)
(* A package or an archive is what is in it: every build and every packing *)
(* makes new bytes, numbered by `made`.  A signature is the number of the  *)
(* archive it was made over; a length is that of the package packed.       *)
(* Commands run one after another and may stop between any two steps; the  *)
(* distribution's edges cache what they serve, archives for good.          *)
(***************************************************************************)
EXTENDS Integers, Sequences

CONSTANTS
  Versions,   \* 1 .. n: what VERSION may say, in the order Sparkle compares
  Edges,      \* of the distribution
  Keychain,   \* the signing key is in the login Keychain, and not in a file
  Partial,    \* a download that was cut
  None,
  Alone,      \* commands the maintainer may also run by themselves
  MaxMade,    \* packages and archives made (a bound)
  MaxFaults   \* commands that stop in the middle (a bound)

ASSUME ReleaseAssumption ==
  /\ Versions \subseteq Nat
  /\ 1 \in Versions
  /\ Keychain \in BOOLEAN
  /\ Alone \subseteq {"pkg", "pkg-notarized", "appcast", "publish", "cask"}
  /\ MaxMade \in Nat
  /\ MaxFaults \in Nat

VARIABLES
  version,  \* the VERSION file
  pkg,      \* build/MyMicroTunnel-<v>.pkg: [id, signed, ticket]
  zip,      \* build/MyMicroTunnel-<v>.zip: [id, pkg]
  feed,     \* build/appcast.xml: [version, signs, length, signed]
  cask,     \* packaging/homebrew: [version, sum]
  origin,   \* the bucket: [zips, pkgs, latest, feed]; latest: [version, pkg]
  edge,     \* what each edge has cached: [zips, feed]
  todo,     \* the commands of the recipe that are still to run
  at,       \* the step the first of them is at
  result,   \* of the last recipe
  forced,   \* versions whose archive was published over another
  made,
  faults

releaseVars ==
  <<version, pkg, zip, feed, cask, origin, edge, todo, at, result, forced, made, faults>>

-----------------------------------------------------------------------------
\* The Makefile's recipes.

Cmd(name) == [name |-> name, to |-> 0, force |-> FALSE]

ReleaseRecipe == <<Cmd("pkg-notarized"), Cmd("appcast"), Cmd("publish"), Cmd("cask")>>

RollbackRecipe(v) ==
  <<[name |-> "rollback", to |-> v, force |-> FALSE], [name |-> "publish", to |-> 0, force |-> TRUE]>>

Recipes ==
  {ReleaseRecipe, <<[name |-> "publish", to |-> 0, force |-> TRUE]>>}
  \cup {RollbackRecipe(v) : v \in Versions}
  \cup {<<Cmd(name)>> : name \in Alone}

Nothing == [v \in Versions |-> None]

Init ==
  /\ version = 1
  /\ pkg = Nothing
  /\ zip = Nothing
  /\ feed = None
  /\ cask = None
  /\ origin = [zips |-> Nothing, pkgs |-> Nothing, latest |-> None, feed |-> None]
  /\ edge = [e \in Edges |-> [zips |-> Nothing, feed |-> None]]
  /\ todo = <<>>
  /\ at = "begin"
  /\ result = [recipe |-> <<>>, ok |-> TRUE]
  /\ forced = {}
  /\ made = 0
  /\ faults = 0

\* What an edge answers: its copy, or the bucket's.
ServedZip(e, v) == IF edge[e].zips[v] # None THEN edge[e].zips[v] ELSE origin.zips[v]
ServedFeed(e) == IF edge[e].feed # None THEN edge[e].feed ELSE origin.feed

Idle == todo = <<>>

At(name, step) == ~Idle /\ Head(todo).name = name /\ at = step

Goes(step) == at' = step /\ UNCHANGED <<todo, result>>

Succeeds ==
  /\ todo' = Tail(todo)
  /\ at' = "begin"
  /\ result' = IF Tail(todo) = <<>> THEN [result EXCEPT !.ok = TRUE] ELSE result

Fails == todo' = <<>> /\ at' = "begin" /\ UNCHANGED result

Begin(recipe) ==
  /\ Idle
  /\ todo' = recipe
  /\ at' = "begin"
  /\ result' = [recipe |-> recipe, ok |-> FALSE]
  /\ UNCHANGED <<version, pkg, zip, feed, cask, origin, edge, forced, made, faults>>

\* The maintainer raises VERSION.
Raise ==
  /\ Idle
  /\ version + 1 \in Versions
  /\ version' = version + 1
  /\ UNCHANGED <<pkg, zip, feed, cask, origin, edge, todo, at, result, forced, made, faults>>

-----------------------------------------------------------------------------
\* cmd/build-pkg.

Makes(number) == made < MaxMade /\ made' = made + 1 /\ number = made + 1

\* The old package goes first.  It is signed if the keychain has both of the
\* identities; without a notary profile that is all.
BuildProduct ==
  /\ At("pkg", "begin") \/ At("pkg-notarized", "begin")
  /\ Makes(made + 1)
  /\ \E signed \in BOOLEAN :
       pkg' = [pkg EXCEPT ![version] = [id |-> made + 1, signed |-> signed, ticket |-> FALSE]]
  /\ IF Head(todo).name = "pkg" THEN Succeeds ELSE Goes("notarize")
  /\ UNCHANGED <<version, zip, feed, cask, origin, edge, forced, faults>>

\* Only a signed package is submitted; the ticket is stapled to the file.
Notarize ==
  /\ At("pkg-notarized", "notarize")
  /\ IF pkg[version].signed
     THEN pkg' = [pkg EXCEPT ![version].ticket = TRUE] /\ Succeeds
     ELSE UNCHANGED pkg /\ Fails
  /\ UNCHANGED <<version, zip, feed, cask, origin, edge, forced, made, faults>>

-----------------------------------------------------------------------------
\* cmd/appcast.

\* Mutant of Pack: an archive that is there already is kept.
PackOnce ==
  /\ At("appcast", "begin")
  /\ IF pkg[version] = None THEN Fails /\ UNCHANGED <<zip, made>>
     ELSE /\ Makes(made + 1)
          /\ zip' = IF zip[version] \notin {None, Partial} THEN zip
                    ELSE [zip EXCEPT ![version] = [id |-> made + 1, pkg |-> pkg[version]]]
          /\ Goes("feed")
  /\ UNCHANGED <<version, pkg, feed, cask, origin, edge, forced, faults>>

Pack ==
  /\ At("appcast", "begin")
  /\ IF pkg[version] = None THEN Fails /\ UNCHANGED <<zip, made>>
     ELSE /\ Makes(made + 1)
          /\ zip' = [zip EXCEPT ![version] = [id |-> made + 1, pkg |-> pkg[version]]]
          /\ Goes("feed")
  /\ UNCHANGED <<version, pkg, feed, cask, origin, edge, forced, faults>>

\* A rollback packs nothing: it takes the bytes an edge serves.
FetchPublished(e) ==
  /\ At("rollback", "begin")
  /\ LET v == Head(todo).to IN
     IF ServedZip(e, v) = None THEN Fails /\ UNCHANGED <<zip, edge>>
     ELSE /\ zip' = [zip EXCEPT ![v] = ServedZip(e, v)]
          /\ edge' = [edge EXCEPT ![e].zips[v] = ServedZip(e, v)]
          /\ Goes("feed")
  /\ UNCHANGED <<version, pkg, feed, cask, origin, forced, made, faults>>

Advertised == IF Head(todo).name = "rollback" THEN Head(todo).to ELSE version

\* signUpdate and buildFeed.
WriteFeed ==
  /\ At("appcast", "feed") \/ At("rollback", "feed")
  /\ feed' = [version |-> Advertised, signs |-> zip[Advertised].id,
              length |-> zip[Advertised].pkg.id, signed |-> FALSE]
  /\ Goes("sign")
  /\ UNCHANGED <<version, pkg, zip, cask, origin, edge, forced, made, faults>>

\* The feed as a whole, in the file it was written to.
SignFeed ==
  /\ At("appcast", "sign") \/ At("rollback", "sign")
  /\ feed' = [feed EXCEPT !.signed = TRUE]
  /\ Goes("validate")
  /\ UNCHANGED <<version, pkg, zip, cask, origin, edge, forced, made, faults>>

\* The local feed against the local archive; not the feed's own signature.
\* Only the Keychain's key can verify that of the archive.
Valid(v) ==
  /\ feed # None
  /\ feed.version = v
  /\ zip[v] \notin {None, Partial}
  /\ feed.length = zip[v].pkg.id
  /\ Keychain => feed.signs = zip[v].id

Validate ==
  /\ At("appcast", "validate") \/ At("rollback", "validate")
  /\ IF Valid(Advertised) THEN Succeeds ELSE Fails
  /\ UNCHANGED <<version, pkg, zip, feed, cask, origin, edge, forced, made, faults>>

-----------------------------------------------------------------------------
\* cmd/publish.

\* Mutant of CheckRelease: what is out already is not looked at.
CheckFilesOnly ==
  /\ At("publish", "begin")
  /\ IF pkg[version] # None /\ Valid(version) THEN Goes("archive") ELSE Fails
  /\ UNCHANGED <<version, pkg, zip, feed, cask, origin, edge, forced, made, faults>>

\* The build is there and validates for VERSION, and VERSION is not out yet,
\* or the maintainer insists.
CheckRelease ==
  /\ At("publish", "begin")
  /\ LET out == origin.zips[version] # None IN
     IF pkg[version] # None /\ Valid(version) /\ (out => Head(todo).force)
     THEN Goes("archive") /\ forced' = IF out THEN forced \cup {version} ELSE forced
     ELSE Fails /\ UNCHANGED forced
  /\ UNCHANGED <<version, pkg, zip, feed, cask, origin, edge, made, faults>>

Uploads(step, key, next) ==
  /\ At("publish", step)
  /\ origin' = key
  /\ Goes(next)
  /\ UNCHANGED <<version, pkg, zip, feed, cask, edge, forced, made, faults>>

UploadArchive == Uploads("archive", [origin EXCEPT !.zips[version] = zip[version]], "package")
UploadPackage == Uploads("package", [origin EXCEPT !.pkgs[version] = pkg[version]], "latest")

\* Mutant of UploadLatest: the archive, where the package is meant.
UploadLatestArchive ==
  Uploads("latest", [origin EXCEPT !.latest = [version |-> version, pkg |-> zip[version]]], "appcast")

\* Mutant of UploadLatest: a download link that is there already is kept.
UploadLatestOnce ==
  Uploads("latest",
          IF origin.latest # None THEN origin
          ELSE [origin EXCEPT !.latest = [version |-> version, pkg |-> pkg[version]]],
          "appcast")

UploadLatest ==
  Uploads("latest", [origin EXCEPT !.latest = [version |-> version, pkg |-> pkg[version]]], "appcast")

UploadFeed == Uploads("appcast", [origin EXCEPT !.feed = feed], "invalidate")

\* An invalidation is taken, and not yet everywhere done.
Invalidate ==
  /\ At("publish", "invalidate")
  /\ \E done \in SUBSET Edges :
       edge' = [e \in Edges |-> IF e \in done THEN [edge[e] EXCEPT !.feed = None] ELSE edge[e]]
  /\ Goes("verify")
  /\ UNCHANGED <<version, pkg, zip, feed, cask, origin, forced, made, faults>>

\* Reads the feed back until it advertises the version, or gives up.
Verify(e) ==
  /\ At("publish", "verify")
  /\ edge' = [edge EXCEPT ![e].feed = ServedFeed(e)]
  /\ IF ServedFeed(e).version = version THEN Succeeds ELSE Goes("verify") \/ Fails
  /\ UNCHANGED <<version, pkg, zip, feed, cask, origin, forced, made, faults>>

-----------------------------------------------------------------------------
\* cmd/cask: written from the local package, then the published one is asked for.

WriteCask ==
  /\ At("cask", "begin")
  /\ IF pkg[version] = None THEN Fails /\ UNCHANGED cask
     ELSE cask' = [version |-> version, sum |-> pkg[version]] /\ Goes("check")
  /\ UNCHANGED <<version, pkg, zip, feed, origin, edge, forced, made, faults>>

CheckCask ==
  /\ At("cask", "check")
  /\ IF origin.pkgs[version] # None THEN Succeeds ELSE Fails
  /\ UNCHANGED <<version, pkg, zip, feed, cask, origin, edge, forced, made, faults>>

-----------------------------------------------------------------------------
\* A command stops where it is.  What its next step removes or truncates
\* before it writes may be gone.
Stops ==
  /\ ~Idle
  /\ faults < MaxFaults
  /\ faults' = faults + 1
  /\ Fails
  /\ \/ UNCHANGED <<pkg, zip>>
     \/ /\ at = "begin" /\ Head(todo).name \in {"pkg", "pkg-notarized"}
        /\ pkg' = [pkg EXCEPT ![version] = None]
        /\ UNCHANGED zip
     \/ /\ at = "begin" /\ Head(todo).name = "appcast"
        /\ zip' = [zip EXCEPT ![version] = None]
        /\ UNCHANGED pkg
     \/ /\ at = "begin" /\ Head(todo).name = "rollback"
        /\ zip' = [zip EXCEPT ![Head(todo).to] = Partial]
        /\ UNCHANGED pkg
  /\ UNCHANGED <<version, feed, cask, origin, edge, forced, made>>

\* An installed copy asks an edge, and downloads what the feed names.
Asks(e) ==
  /\ ServedFeed(e) # None
  /\ LET v == ServedFeed(e).version IN
     edge' = [edge EXCEPT ![e] = [zips |-> [@.zips EXCEPT ![v] = ServedZip(e, v)], feed |-> ServedFeed(e)]]
  /\ UNCHANGED <<version, pkg, zip, feed, cask, origin, todo, at, result, forced, made, faults>>

\* Mutant of Expire: the feed is cached like the archives.
NeverExpires(e) == FALSE /\ UNCHANGED releaseVars

\* The feed is kept for five minutes.
Expire(e) ==
  /\ edge[e].feed # None
  /\ edge' = [edge EXCEPT ![e].feed = None]
  /\ UNCHANGED <<version, pkg, zip, feed, cask, origin, todo, at, result, forced, made, faults>>

Steps ==
  \/ BuildProduct \/ Notarize
  \/ Pack \/ WriteFeed \/ SignFeed \/ Validate
  \/ CheckRelease \/ UploadArchive \/ UploadPackage \/ UploadLatest \/ UploadFeed \/ Invalidate
  \/ WriteCask \/ CheckCask
  \/ \E e \in Edges : FetchPublished(e) \/ Verify(e)

Next ==
  \/ \E recipe \in Recipes : Begin(recipe)
  \/ Raise
  \/ Steps
  \/ Stops
  \/ \E e \in Edges : Asks(e) \/ Expire(e)

Spec == Init /\ [][Next]_releaseVars

FairSpec == Spec /\ \A e \in Edges : WF_releaseVars(Expire(e))

-----------------------------------------------------------------------------
Packages == [id : Nat, signed : BOOLEAN, ticket : BOOLEAN]
Archives == [id : Nat, pkg : Packages]
Latest == [version : Versions, pkg : Packages]
Feeds == [version : Versions, signs : Nat, length : Nat, signed : BOOLEAN]

ReleaseTypeOK ==
  /\ version \in Versions
  /\ pkg \in [Versions -> Packages \cup {None}]
  /\ zip \in [Versions -> Archives \cup {None, Partial}]
  /\ feed \in Feeds \cup {None}
  /\ cask \in [version : Versions, sum : Packages] \cup {None}
  /\ origin \in [zips : [Versions -> Archives \cup {None}], pkgs : [Versions -> Packages \cup {None}],
                 latest : Latest \cup {None}, feed : Feeds \cup {None}]
  /\ edge \in [Edges -> [zips : [Versions -> Archives \cup {None}], feed : Feeds \cup {None}]]
  /\ forced \in SUBSET Versions
  /\ made \in 0 .. MaxMade
  /\ faults \in 0 .. MaxFaults

\* Whatever feed an edge serves, fresh or cached, names an archive the edge can
\* serve, and its signature verifies against the bytes that edge serves, unless
\* the maintainer has published over a version that was out, or signs with a
\* key file, which --verify cannot use (cmd/publish/main.go:196, "a feed every
\* installed copy fails to update from").
ServedVerifies ==
  Keychain => \A e \in Edges :
    LET f == ServedFeed(e) IN
    f # None /\ f.version \notin forced =>
      ServedZip(e, f.version) # None /\ ServedZip(e, f.version).id = f.signs

\* A feed is out only with its packages: wherever a publish stopped, the
\* version the feed advertises can be installed by hand, and the download button
\* gives that version or the later one whose publish came as far as the button
\* (cmd/publish/main.go:215, "a download link pointing at a version that is no
\* longer current").
FeedComesLast ==
  origin.feed # None =>
    /\ origin.pkgs[origin.feed.version] # None
    /\ origin.latest \in Latest
    /\ origin.latest.version >= origin.feed.version

\* A release whose every step ended well is one build through every channel:
\* the archive the signed feed signs, the package under its version, the
\* download button and the cask hold the same notarized package.
ReleaseIsWhole ==
  result.recipe = ReleaseRecipe /\ result.ok /\ Idle =>
    LET f == origin.feed
        v == f.version
    IN  /\ origin.pkgs[v].ticket
        /\ origin.zips[v].id = f.signs
        /\ origin.zips[v].pkg = origin.pkgs[v]
        /\ origin.latest = [version |-> v, pkg |-> origin.pkgs[v]]
        /\ f.signed
        /\ cask = [version |-> v, sum |-> origin.pkgs[v]]

\* Once the feed stops changing, every edge that is asked comes to serve it
\* (infra/cloudformation-updates.yaml:164).
EdgesCatchUp ==
  []<><<TRUE>>_origin \/ \A e \in Edges : <>[](ServedFeed(e) = origin.feed)

\* A feed that is out is signed as a whole (cmd/appcast/main.go:171, "so a feed
\* altered in transit is rejected even before its enclosure is looked at").
FeedIsSigned == origin.feed # None => origin.feed.signed

\* `make rollback` from a version that is published to another that is, with
\* nothing going wrong, leaves the feed pointing at it (README.md:535, "and
\* republishes the feed pointing at it").
RollbackLands ==
  \A v \in Versions :
    /\ result.recipe = RollbackRecipe(v)
    /\ Idle
    /\ faults = 0
    /\ {origin.zips[v], origin.zips[version]} \cap {None} = {}
    => result.ok
=============================================================================
