--------------------------- MODULE ReleaseProofs ---------------------------
(***************************************************************************)
(* Theorems about Release, for any versions, edges and number of builds    *)
(* and stops.                                                              *)
(***************************************************************************)
EXTENDS Release, TLAPS

Names == {"pkg", "pkg-notarized", "appcast", "publish", "cask"}

Commands ==
  [name : Names, to : {0}, force : BOOLEAN] \cup [name : {"rollback"}, to : Versions, force : {FALSE}]

Control ==
  /\ todo \in Seq(Commands)
  /\ result \in [recipe : Seq(Commands), ok : BOOLEAN]

\* What the steps of a publish, from its checks on, have made sure of.
Publishing(steps) == ~Idle /\ Head(todo).name = "publish" /\ at \in steps

\* What a step relies on that earlier steps of its command have looked at: the
\* maintainer's files do not change under it.
InStep ==
  /\ At("pkg-notarized", "notarize") => pkg[version] \in Packages
  /\ At("appcast", "feed") => zip[version] \in Archives
  /\ At("rollback", "feed") => zip[Head(todo).to] \in Archives
  /\ At("appcast", "sign") \/ At("rollback", "sign") => feed \in Feeds
  /\ Publishing({"archive", "package", "latest", "appcast"}) =>
       /\ pkg[version] # None
       /\ zip[version] \notin {None, Partial}
       /\ feed # None
       /\ feed.version = version
       /\ Keychain => feed.signs = zip[version].id
  /\ Publishing({"archive"}) /\ origin.zips[version] # None => version \in forced
  /\ Publishing({"package", "latest", "appcast"}) => origin.zips[version] = zip[version]
  /\ Publishing({"latest", "appcast"}) => origin.pkgs[version] # None
  /\ Publishing({"appcast"}) => origin.latest \in Latest /\ origin.latest.version = version
  /\ Publishing({"invalidate", "verify"}) => origin.feed # None

TypeInv == ReleaseTypeOK /\ Control /\ InStep

LEMMA RecipesType == \A recipe \in Recipes : recipe \in Seq(Commands)
<1>1. \A name \in Names : Cmd(name) \in Commands
  BY DEF Cmd, Commands
<1>2. /\ "pkg-notarized" \in Names
      /\ "appcast" \in Names
      /\ "publish" \in Names
      /\ "cask" \in Names
      /\ "pkg" \in Names
  BY DEF Names
<1>3. [name |-> "publish", to |-> 0, force |-> TRUE] \in Commands
  BY <1>2 DEF Commands
<1>4. \A v \in Versions : [name |-> "rollback", to |-> v, force |-> FALSE] \in Commands
  BY DEF Commands
<1>5. ReleaseRecipe \in Seq(Commands)
  BY <1>1, <1>2 DEF ReleaseRecipe
<1>6. <<[name |-> "publish", to |-> 0, force |-> TRUE]>> \in Seq(Commands)
  BY <1>3
<1>7. \A v \in Versions : RollbackRecipe(v) \in Seq(Commands)
  <2> TAKE v \in Versions
  <2> DEFINE first == [name |-> "rollback", to |-> v, force |-> FALSE]
             second == [name |-> "publish", to |-> 0, force |-> TRUE]
  <2>1. first \in Commands /\ second \in Commands
    BY <1>3, <1>4
  <2> HIDE DEF first, second
  <2>2. <<first, second>> \in Seq(Commands)
    BY <2>1
  <2> QED
    BY <2>2 DEF RollbackRecipe, first, second
<1>8. \A name \in Alone : <<Cmd(name)>> \in Seq(Commands)
  <2>1. \A name \in Alone : Cmd(name) \in Commands
    BY <1>1, ReleaseAssumption DEF Names
  <2> QED
    BY <2>1
<1> QED
  BY <1>5, <1>6, <1>7, <1>8 DEF Recipes

\* What a step leaves of the recipe.
LEMMA GoesOn ==
  ASSUME Control, UNCHANGED <<todo, result>>
  PROVE  Control'
BY DEF Control

LEMMA Ended ==
  ASSUME Control, ~Idle, Succeeds \/ Fails
  PROVE  Control'
<1>1. todo \in Seq(Commands) /\ todo # <<>>
  BY DEF Control, Idle
<1>2. Tail(todo) \in Seq(Commands)
  BY <1>1
<1>3. <<>> \in Seq(Commands)
  OBVIOUS
<1>4. todo' \in Seq(Commands)
  BY <1>2, <1>3 DEF Succeeds, Fails
<1>5. result' \in [recipe : Seq(Commands), ok : BOOLEAN]
  <2>1. result \in [recipe : Seq(Commands), ok : BOOLEAN]
    BY DEF Control
  <2> DEFINE S == Seq(Commands)
  <2> HIDE DEF S
  <2>2. result' = result \/ result' = [result EXCEPT !.ok = TRUE]
    BY DEF Succeeds, Fails
  <2>3. result \in [recipe : S, ok : BOOLEAN]
    BY <2>1 DEF S
  <2>4. result' \in [recipe : S, ok : BOOLEAN]
    BY <2>2, <2>3
  <2> QED
    BY <2>4 DEF S
<1> QED
  BY <1>4, <1>5 DEF Control

-----------------------------------------------------------------------------
\* Types.

LEMMA InitTyped == Init => TypeInv
<1> SUFFICES ASSUME Init PROVE TypeInv
  OBVIOUS
<1> USE DEF Init, Nothing
<1>1. ReleaseTypeOK
  BY ReleaseAssumption DEF ReleaseTypeOK
<1>2. Control
  <2>1. <<>> \in Seq(Commands)
    OBVIOUS
  <2> QED
    BY <2>1 DEF Control
<1>3. InStep
  BY DEF InStep, At, Publishing, Idle
<1> QED
  BY <1>1, <1>2, <1>3 DEF TypeInv

\* A rollback goes to a version.
LEMMA AdvertisedType ==
  ASSUME Control, ~Idle, version \in Versions
  PROVE  Advertised \in Versions
<1>1. Head(todo) \in Commands
  BY DEF Control, Idle
<1> QED
  BY <1>1 DEF Advertised, Commands, Names

\* No step relies on anything between two commands.
LEMMA NotInStep == ~Idle /\ (Succeeds \/ Fails) => InStep'
BY DEF Succeeds, Fails, InStep, At, Publishing

\* The steps on the maintainer's side.
LEMMA LocalTyped ==
  ASSUME TypeInv, BuildProduct \/ Notarize \/ Pack \/ WriteFeed \/ SignFeed \/ Validate \/ WriteCask \/ CheckCask
  PROVE  TypeInv'
<1>t. ReleaseTypeOK /\ Control /\ InStep
  BY DEF TypeInv
<1>1. CASE BuildProduct
  <2>1. ~Idle
    BY <1>1 DEF BuildProduct, At
  <2>2. Control'
    BY <1>1, <1>t, <2>1, GoesOn, Ended DEF BuildProduct, Goes
  <2>3. made + 1 \in Nat /\ made' \in 0 .. MaxMade
    BY <1>1, <1>t, ReleaseAssumption DEF BuildProduct, Makes, ReleaseTypeOK
  <2>4. pkg' \in [Versions -> Packages \cup {None}] /\ pkg'[version] \in Packages
    BY <1>1, <1>t, <2>3 DEF BuildProduct, ReleaseTypeOK, Packages
  <2>5. ReleaseTypeOK'
    BY <1>1, <1>t, <2>3, <2>4 DEF BuildProduct, ReleaseTypeOK
  <2>6. InStep'
    <3>1. CASE Head(todo).name = "pkg"
      BY <1>1, <2>1, <3>1, NotInStep DEF BuildProduct
    <3>2. CASE Head(todo).name # "pkg"
      BY <1>1, <2>4, <3>2 DEF BuildProduct, Goes, InStep, At, Publishing, Idle
    <3> QED
      BY <3>1, <3>2
  <2> QED
    BY <2>2, <2>5, <2>6 DEF TypeInv
<1>2. CASE Notarize
  <2>1. ~Idle
    BY <1>2 DEF Notarize, At
  <2>2. Control' /\ InStep'
    BY <1>2, <1>t, <2>1, Ended, NotInStep DEF Notarize
  <2>3. pkg[version] \in Packages
    BY <1>2, <1>t DEF Notarize, InStep
  <2>4. pkg' \in [Versions -> Packages \cup {None}]
    <3> DEFINE stapled == [pkg[version] EXCEPT !.ticket = TRUE]
    <3>1. stapled \in Packages
      BY <2>3 DEF Packages
    <3>2. pkg' \in {pkg, [pkg EXCEPT ![version] = stapled]}
      BY <1>2 DEF Notarize
    <3> HIDE DEF stapled
    <3> QED
      BY <1>t, <3>1, <3>2 DEF ReleaseTypeOK
  <2>5. ReleaseTypeOK'
    BY <1>2, <1>t, <2>4 DEF Notarize, ReleaseTypeOK
  <2> QED
    BY <2>2, <2>5 DEF TypeInv
<1>3. CASE Pack
  <2>1. ~Idle
    BY <1>3 DEF Pack, At
  <2>2. CASE pkg[version] = None
    BY <1>3, <1>t, <2>1, <2>2, Ended, NotInStep DEF Pack, TypeInv, ReleaseTypeOK
  <2>3. CASE pkg[version] # None
    <3>1. made + 1 \in Nat /\ made' \in 0 .. MaxMade
      BY <1>3, <1>t, <2>3, ReleaseAssumption DEF Pack, Makes, ReleaseTypeOK
    <3>2. zip' \in [Versions -> Archives \cup {None, Partial}] /\ zip'[version] \in Archives
      BY <1>3, <1>t, <2>3, <3>1 DEF Pack, ReleaseTypeOK, Archives
    <3>3. ReleaseTypeOK'
      BY <1>3, <1>t, <2>3, <3>1, <3>2 DEF Pack, ReleaseTypeOK
    <3>4. Control'
      BY <1>3, <1>t, <2>3, GoesOn DEF Pack, Goes
    <3>5. InStep'
      BY <1>3, <2>1, <2>3, <3>2 DEF Pack, Goes, InStep, At, Publishing, Idle
    <3> QED
      BY <3>3, <3>4, <3>5 DEF TypeInv
  <2> QED
    BY <2>2, <2>3
<1>4. CASE WriteFeed
  <2>1. ~Idle /\ Advertised \in Versions
    BY <1>4, <1>t, AdvertisedType DEF WriteFeed, At, ReleaseTypeOK
  <2>2. zip[Advertised] \in Archives
    BY <1>4, <1>t DEF WriteFeed, InStep, Advertised, At
  <2>3. feed' \in Feeds
    BY <1>4, <2>1, <2>2 DEF WriteFeed, Feeds, Archives, Packages
  <2>4. ReleaseTypeOK'
    BY <1>4, <1>t, <2>3 DEF WriteFeed, ReleaseTypeOK
  <2>5. Control'
    BY <1>4, <1>t, GoesOn DEF WriteFeed, Goes
  <2>6. InStep'
    BY <1>4, <2>3 DEF WriteFeed, Goes, InStep, At, Publishing, Idle
  <2> QED
    BY <2>4, <2>5, <2>6 DEF TypeInv
<1>7. CASE SignFeed
  <2>1. feed \in Feeds
    BY <1>7, <1>t DEF SignFeed, InStep
  <2>2. feed' \in Feeds
    BY <1>7, <2>1 DEF SignFeed, Feeds
  <2>3. ReleaseTypeOK'
    BY <1>7, <1>t, <2>2 DEF SignFeed, ReleaseTypeOK
  <2>4. Control'
    BY <1>7, <1>t, GoesOn DEF SignFeed, Goes
  <2>5. InStep'
    BY <1>7 DEF SignFeed, Goes, InStep, At, Publishing, Idle
  <2> QED
    BY <2>3, <2>4, <2>5 DEF TypeInv
<1>5. CASE Validate \/ CheckCask
  <2>1. ~Idle /\ (Succeeds \/ Fails)
    BY <1>5 DEF Validate, CheckCask, At
  <2>2. ReleaseTypeOK'
    BY <1>5, <1>t DEF Validate, CheckCask, ReleaseTypeOK
  <2> QED
    BY <1>t, <2>1, <2>2, Ended, NotInStep DEF TypeInv
<1>6. CASE WriteCask
  <2>1. ~Idle
    BY <1>6 DEF WriteCask, At
  <2>2. CASE pkg[version] = None
    BY <1>6, <1>t, <2>1, <2>2, Ended, NotInStep DEF WriteCask, TypeInv, ReleaseTypeOK
  <2>3. CASE pkg[version] # None
    <3>1. cask' \in [version : Versions, sum : Packages]
      BY <1>6, <1>t, <2>3 DEF WriteCask, ReleaseTypeOK
    <3>2. ReleaseTypeOK'
      BY <1>6, <1>t, <3>1 DEF WriteCask, ReleaseTypeOK
    <3>3. Control'
      BY <1>6, <1>t, <2>3, GoesOn DEF WriteCask, Goes
    <3>4. InStep'
      BY <1>6, <2>3 DEF WriteCask, Goes, InStep, At, Publishing, Idle
    <3> QED
      BY <3>2, <3>3, <3>4 DEF TypeInv
  <2> QED
    BY <2>2, <2>3
<1> QED
  BY <1>1, <1>2, <1>3, <1>4, <1>5, <1>6, <1>7

\* The steps of a publish.
LEMMA PublishTyped ==
  ASSUME TypeInv,
         CheckRelease \/ UploadArchive \/ UploadPackage \/ UploadLatest \/ UploadFeed \/ Invalidate
  PROVE  TypeInv'
<1>t. ReleaseTypeOK /\ Control /\ InStep
  BY DEF TypeInv
<1> USE DEF Packages, Archives, Latest, Feeds
<1>1. CASE CheckRelease
  <2>1. ~Idle
    BY <1>1 DEF CheckRelease, At
  <2>2. ReleaseTypeOK'
    BY <1>1, <1>t DEF CheckRelease, ReleaseTypeOK
  <2>3. CASE Fails
    BY <1>t, <2>1, <2>2, <2>3, Ended, NotInStep DEF TypeInv
  <2>4. CASE Goes("archive")
    <3>1. ~Fails
      BY <2>1, <2>4 DEF Fails, Goes, Idle
    <3>2. pkg[version] # None /\ Valid(version)
      BY <1>1, <3>1 DEF CheckRelease
    <3>3. origin.zips[version] # None => version \in forced'
      BY <1>1, <3>1 DEF CheckRelease
    <3>4. Control'
      BY <1>t, <2>4, GoesOn DEF Goes
    <3>5. InStep'
      BY <1>1, <2>1, <2>4, <3>2, <3>3 DEF CheckRelease, Goes, InStep, At, Publishing, Idle, Valid
    <3> QED
      BY <2>2, <3>4, <3>5 DEF TypeInv
  <2> QED
    BY <1>1, <2>3, <2>4 DEF CheckRelease
<1>2. CASE UploadArchive
  <2>1. ~Idle /\ Head(todo).name = "publish" /\ at = "archive" /\ at' = "package"
    BY <1>2 DEF UploadArchive, Uploads, At, Goes
  <2>2. zip[version] \in [id : Nat, pkg : Packages]
    BY <1>t, <2>1 DEF InStep, Publishing, ReleaseTypeOK
  <2>3. origin'.zips = [origin.zips EXCEPT ![version] = zip[version]]
        /\ origin'.pkgs = origin.pkgs /\ origin'.latest = origin.latest /\ origin'.feed = origin.feed
        /\ origin' = [origin EXCEPT !.zips = origin'.zips]
    BY <1>2, <1>t DEF UploadArchive, Uploads, ReleaseTypeOK
  <2>4. ReleaseTypeOK'
    BY <1>2, <1>t, <2>2, <2>3 DEF UploadArchive, Uploads, ReleaseTypeOK
  <2>5. Control'
    BY <1>2, <1>t, GoesOn DEF UploadArchive, Uploads, Goes
  <2>6. origin'.zips[version] = zip[version]
    BY <1>t, <2>3 DEF ReleaseTypeOK
  <2>7. InStep'
    BY <1>2, <1>t, <2>1, <2>3, <2>6 DEF UploadArchive, Uploads, Goes, InStep, At, Publishing, Idle
  <2> QED
    BY <2>4, <2>5, <2>7 DEF TypeInv
<1>3. CASE UploadPackage
  <2>1. ~Idle /\ Head(todo).name = "publish" /\ at = "package" /\ at' = "latest"
    BY <1>3 DEF UploadPackage, Uploads, At, Goes
  <2>2. pkg[version] # None /\ pkg[version] \in Packages
    BY <1>t, <2>1 DEF InStep, Publishing, ReleaseTypeOK
  <2>3. origin'.pkgs = [origin.pkgs EXCEPT ![version] = pkg[version]]
        /\ origin'.zips = origin.zips /\ origin'.latest = origin.latest /\ origin'.feed = origin.feed
        /\ origin' = [origin EXCEPT !.pkgs = origin'.pkgs]
    BY <1>3, <1>t DEF UploadPackage, Uploads, ReleaseTypeOK
  <2>4. ReleaseTypeOK'
    BY <1>3, <1>t, <2>2, <2>3 DEF UploadPackage, Uploads, ReleaseTypeOK
  <2>5. Control'
    BY <1>3, <1>t, GoesOn DEF UploadPackage, Uploads, Goes
  <2>6. origin'.pkgs[version] # None
    BY <1>t, <2>2, <2>3 DEF ReleaseTypeOK
  <2>7. InStep'
    BY <1>3, <1>t, <2>1, <2>3, <2>6 DEF UploadPackage, Uploads, Goes, InStep, At, Publishing, Idle
  <2> QED
    BY <2>4, <2>5, <2>7 DEF TypeInv
<1>4. CASE UploadLatest
  <2>1. ~Idle /\ Head(todo).name = "publish" /\ at = "latest" /\ at' = "appcast"
    BY <1>4 DEF UploadLatest, Uploads, At, Goes
  <2>2. pkg[version] # None /\ pkg[version] \in Packages
    BY <1>t, <2>1 DEF InStep, Publishing, ReleaseTypeOK
  <2>3. origin'.pkgs = origin.pkgs /\ origin'.zips = origin.zips
        /\ origin'.latest = [version |-> version, pkg |-> pkg[version]] /\ origin'.feed = origin.feed
        /\ origin' = [origin EXCEPT !.latest = origin'.latest]
    BY <1>4, <1>t DEF UploadLatest, Uploads, ReleaseTypeOK
  <2>l. origin'.latest \in Latest
    BY <1>t, <2>2, <2>3 DEF ReleaseTypeOK
  <2>4. ReleaseTypeOK'
    BY <1>4, <1>t, <2>3, <2>l DEF UploadLatest, Uploads, ReleaseTypeOK
  <2>5. Control'
    BY <1>4, <1>t, GoesOn DEF UploadLatest, Uploads, Goes
  <2>6. InStep'
    BY <1>4, <1>t, <2>1, <2>2, <2>3, <2>l DEF UploadLatest, Uploads, Goes, InStep, At, Publishing, Idle
  <2> QED
    BY <2>4, <2>5, <2>6 DEF TypeInv
<1>5. CASE UploadFeed
  <2>1. ~Idle /\ Head(todo).name = "publish" /\ at = "appcast" /\ at' = "invalidate"
    BY <1>5 DEF UploadFeed, Uploads, At, Goes
  <2>2. feed # None /\ feed \in Feeds
    BY <1>t, <2>1 DEF InStep, Publishing, ReleaseTypeOK
  <2>3. origin'.pkgs = origin.pkgs /\ origin'.zips = origin.zips
        /\ origin'.latest = origin.latest /\ origin'.feed = feed
        /\ origin' = [origin EXCEPT !.feed = feed]
    BY <1>5, <1>t DEF UploadFeed, Uploads, ReleaseTypeOK
  <2>4. ReleaseTypeOK'
    BY <1>5, <1>t, <2>2, <2>3 DEF UploadFeed, Uploads, ReleaseTypeOK
  <2>5. Control'
    BY <1>5, <1>t, GoesOn DEF UploadFeed, Uploads, Goes
  <2>6. InStep'
    BY <1>5, <1>t, <2>1, <2>2, <2>3 DEF UploadFeed, Uploads, Goes, InStep, At, Publishing, Idle
  <2> QED
    BY <2>4, <2>5, <2>6 DEF TypeInv
<1>6. CASE Invalidate
  <2>1. ~Idle /\ Head(todo).name = "publish" /\ at = "invalidate" /\ at' = "verify"
    BY <1>6 DEF Invalidate, At, Goes
  <2>2. \A e \in Edges : edge'[e] \in [zips : [Versions -> Archives \cup {None}], feed : Feeds \cup {None}]
    BY <1>6, <1>t DEF Invalidate, ReleaseTypeOK
  <2>3. ReleaseTypeOK'
    BY <1>6, <1>t, <2>2 DEF Invalidate, ReleaseTypeOK
  <2>4. Control'
    BY <1>6, <1>t, GoesOn DEF Invalidate, Goes
  <2>5. InStep'
    BY <1>6, <1>t, <2>1 DEF Invalidate, Goes, InStep, At, Publishing, Idle
  <2> QED
    BY <2>3, <2>4, <2>5 DEF TypeInv
<1> QED
  BY <1>1, <1>2, <1>3, <1>4, <1>5, <1>6

Cache == [zips : [Versions -> Archives \cup {None}], feed : Feeds \cup {None}]

\* What an edge has and what it answers.
LEMMA ServedType ==
  ASSUME ReleaseTypeOK, NEW e \in Edges
  PROVE  /\ edge[e] \in Cache
         /\ ServedFeed(e) \in Feeds \cup {None}
         /\ \A v \in Versions : ServedZip(e, v) \in Archives \cup {None}
<1>1. edge[e] \in Cache
  BY DEF ReleaseTypeOK, Cache
<1>2. /\ origin.feed \in Feeds \cup {None}
      /\ \A v \in Versions : origin.zips[v] \in Archives \cup {None}
  BY DEF ReleaseTypeOK
<1> QED
  BY <1>1, <1>2 DEF ServedFeed, ServedZip, Cache

LEMMA CacheType ==
  ASSUME ReleaseTypeOK, NEW e \in Edges, NEW c \in Cache, edge' = [edge EXCEPT ![e] = c],
         UNCHANGED <<version, pkg, feed, cask, origin, forced, made, faults>>,
         zip' \in [Versions -> Archives \cup {None, Partial}]
  PROVE  ReleaseTypeOK'
<1>1. edge' \in [Edges -> Cache]
  BY DEF ReleaseTypeOK, Cache
<1> QED
  BY <1>1 DEF ReleaseTypeOK, Cache

\* What the edges do, asked by a command or by an installed copy.
LEMMA EdgeTyped ==
  ASSUME TypeInv, NEW e \in Edges, FetchPublished(e) \/ Verify(e) \/ Asks(e) \/ Expire(e)
  PROVE  TypeInv'
<1>t. ReleaseTypeOK /\ Control /\ InStep
  BY DEF TypeInv
<1>s. /\ edge[e] \in Cache
      /\ ServedFeed(e) \in Feeds \cup {None}
      /\ \A v \in Versions : ServedZip(e, v) \in Archives \cup {None}
  BY <1>t, ServedType
<1>1. CASE FetchPublished(e)
  <2>1. ~Idle /\ Head(todo).name = "rollback" /\ version \in Versions
    BY <1>1, <1>t DEF FetchPublished, At, ReleaseTypeOK
  <2> DEFINE v == Head(todo).to
  <2>2. v \in Versions
    BY <1>t, <2>1, AdvertisedType DEF Advertised
  <2>3. CASE ServedZip(e, v) = None
    <3>1. Fails /\ UNCHANGED <<version, pkg, zip, feed, cask, origin, edge, forced, made, faults>>
      BY <1>1, <2>3 DEF FetchPublished
    <3>2. ReleaseTypeOK'
      BY <1>t, <3>1 DEF ReleaseTypeOK
    <3> QED
      BY <1>t, <2>1, <3>1, <3>2, Ended, NotInStep DEF TypeInv
  <2>4. CASE ServedZip(e, v) # None
    <3> DEFINE c == [edge[e] EXCEPT !.zips[v] = ServedZip(e, v)]
    <3>1. /\ Goes("feed")
          /\ zip' = [zip EXCEPT ![v] = ServedZip(e, v)]
          /\ edge' = [edge EXCEPT ![e].zips[v] = ServedZip(e, v)]
          /\ UNCHANGED <<version, pkg, feed, cask, origin, forced, made, faults>>
      BY <1>1, <2>4 DEF FetchPublished
    <3>2. ServedZip(e, v) \in Archives
      BY <1>s, <2>2, <2>4
    <3>3. c \in Cache
      BY <1>s, <2>2, <3>2 DEF Cache
    <3>4. edge' = [edge EXCEPT ![e] = c]
      BY <3>1
    <3>5. zip' \in [Versions -> Archives \cup {None, Partial}] /\ zip'[v] \in Archives
      BY <1>t, <2>2, <3>1, <3>2 DEF ReleaseTypeOK
    <3> HIDE DEF c
    <3>6. ReleaseTypeOK'
      BY <1>t, <3>1, <3>3, <3>4, <3>5, CacheType
    <3>7. Control'
      BY <1>t, <3>1, GoesOn DEF Goes
    <3>8. InStep'
      BY <2>1, <3>1, <3>5 DEF Goes, InStep, At, Publishing, Idle
    <3> QED
      BY <3>6, <3>7, <3>8 DEF TypeInv
  <2> QED
    BY <2>3, <2>4
<1>2. CASE Verify(e)
  <2> DEFINE c == [edge[e] EXCEPT !.feed = ServedFeed(e)]
  <2>1. ~Idle /\ (Succeeds \/ Fails \/ Goes("verify"))
    BY <1>2 DEF Verify, At
  <2>2. c \in Cache
    BY <1>s DEF Cache
  <2>3. edge' = [edge EXCEPT ![e] = c]
    BY <1>2 DEF Verify
  <2>4. zip' \in [Versions -> Archives \cup {None, Partial}]
    BY <1>2, <1>t DEF Verify, ReleaseTypeOK
  <2> HIDE DEF c
  <2>5. ReleaseTypeOK'
    BY <1>2, <1>t, <2>2, <2>3, <2>4, CacheType DEF Verify
  <2>6. CASE Goes("verify")
    <3>1. Control'
      BY <1>t, <2>6, GoesOn DEF Goes
    <3>2. InStep'
      BY <1>2, <1>t, <2>6 DEF Verify, Goes, InStep, At, Publishing, Idle
    <3> QED
      BY <2>5, <3>1, <3>2 DEF TypeInv
  <2> QED
    BY <1>t, <2>1, <2>5, <2>6, Ended, NotInStep DEF TypeInv
<1>3. CASE Asks(e)
  <2> DEFINE v == ServedFeed(e).version
             c == [zips |-> [edge[e].zips EXCEPT ![v] = ServedZip(e, v)], feed |-> ServedFeed(e)]
  <2>1. v \in Versions
    BY <1>3, <1>s DEF Asks, Feeds
  <2>2. c \in Cache
    BY <1>s, <2>1 DEF Cache
  <2>3. edge' = [edge EXCEPT ![e] = c]
    BY <1>3 DEF Asks
  <2>4. zip' \in [Versions -> Archives \cup {None, Partial}]
    BY <1>3, <1>t DEF Asks, ReleaseTypeOK
  <2> HIDE DEF c
  <2>5. ReleaseTypeOK'
    BY <1>3, <1>t, <2>2, <2>3, <2>4, CacheType DEF Asks
  <2>6. Control' /\ InStep'
    BY <1>3, <1>t, GoesOn DEF Asks, InStep, At, Publishing, Idle
  <2> QED
    BY <2>5, <2>6 DEF TypeInv
<1>4. CASE Expire(e)
  <2> DEFINE c == [edge[e] EXCEPT !.feed = None]
  <2>2. c \in Cache
    BY <1>s DEF Cache
  <2>3. edge' = [edge EXCEPT ![e] = c]
    BY <1>4 DEF Expire
  <2>4. zip' \in [Versions -> Archives \cup {None, Partial}]
    BY <1>4, <1>t DEF Expire, ReleaseTypeOK
  <2> HIDE DEF c
  <2>5. ReleaseTypeOK'
    BY <1>4, <1>t, <2>2, <2>3, <2>4, CacheType DEF Expire
  <2>6. Control' /\ InStep'
    BY <1>4, <1>t, GoesOn DEF Expire, InStep, At, Publishing, Idle
  <2> QED
    BY <2>5, <2>6 DEF TypeInv
<1> QED
  BY <1>1, <1>2, <1>3, <1>4

\* The maintainer, and a command that stops.
LEMMA MaintainerTyped ==
  ASSUME TypeInv, (\E recipe \in Recipes : Begin(recipe)) \/ Raise \/ Stops
  PROVE  TypeInv'
<1>t. ReleaseTypeOK /\ Control /\ InStep
  BY DEF TypeInv
<1>1. ASSUME NEW recipe \in Recipes, Begin(recipe) PROVE TypeInv'
  <2>1. ReleaseTypeOK'
    BY <1>1, <1>t DEF Begin, ReleaseTypeOK
  <2>2. Control'
    BY <1>1, RecipesType DEF Begin, Control
  <2>3. InStep'
    BY <1>1 DEF Begin, InStep, At, Publishing
  <2> QED
    BY <2>1, <2>2, <2>3 DEF TypeInv
<1>2. CASE Raise
  BY <1>2, <1>t DEF Raise, TypeInv, ReleaseTypeOK, Control, InStep, At, Publishing, Idle
<1>3. CASE Stops
  <2>1. ~Idle /\ Fails
    BY <1>3 DEF Stops
  <2>2. pkg' \in [Versions -> Packages \cup {None}]
    BY <1>3, <1>t DEF Stops, ReleaseTypeOK
  <2>3. zip' \in [Versions -> Archives \cup {None, Partial}]
    BY <1>3, <1>t DEF Stops, ReleaseTypeOK
  <2>4. faults' \in 0 .. MaxFaults
    BY <1>3, <1>t, ReleaseAssumption DEF Stops, ReleaseTypeOK
  <2>5. ReleaseTypeOK'
    BY <1>3, <1>t, <2>2, <2>3, <2>4 DEF Stops, ReleaseTypeOK
  <2> QED
    BY <1>t, <2>1, <2>5, Ended, NotInStep DEF TypeInv
<1> QED
  BY <1>1, <1>2, <1>3

LEMMA TypeStep == TypeInv /\ [Next]_releaseVars => TypeInv'
<1> SUFFICES ASSUME TypeInv, [Next]_releaseVars PROVE TypeInv'
  OBVIOUS
<1>1. CASE UNCHANGED releaseVars
  BY <1>1 DEF releaseVars, TypeInv, ReleaseTypeOK, Control, InStep, At, Publishing, Idle
<1>2. CASE Next
  BY <1>2, LocalTyped, PublishTyped, EdgeTyped, MaintainerTyped DEF Next, Steps
<1> QED
  BY <1>1, <1>2

LEMMA TypeInvariance == Spec => []TypeInv
BY InitTyped, TypeStep, PTL DEF Spec

\* Every variable of Release has its type in every reachable state, through
\* every order of commands and every stop (the whole of cmd/publish,
\* cmd/appcast, cmd/build-pkg and cmd/cask).
THEOREM ReleaseTypeCorrect == Spec => []ReleaseTypeOK
<1>1. TypeInv => ReleaseTypeOK
  BY DEF TypeInv
<1> QED
  BY <1>1, TypeInvariance, PTL

-----------------------------------------------------------------------------
\* What the bucket and the edges hold.

\* The bucket's archive is the one a feed was signed over, unless its version
\* was published twice.
Verified(f) ==
  f # None /\ f.version \notin forced =>
    origin.zips[f.version] # None /\ origin.zips[f.version].id = f.signs

\* What an edge has kept is what the bucket has, with the same exception.
Copies(e) ==
  \A v \in Versions : v \notin forced /\ edge[e].zips[v] # None => edge[e].zips[v] = origin.zips[v]

ServedInv ==
  /\ FeedComesLast
  /\ origin.feed # None => origin.feed.version <= version
  /\ Keychain => Verified(origin.feed) /\ \A e \in Edges : Verified(edge[e].feed)
  /\ \A e \in Edges : Copies(e)

LEMMA ServedInit == Init => ServedInv
BY DEF Init, Nothing, ServedInv, FeedComesLast, Verified, Copies

\* The uploads, in their order.
LEMMA ServedUploads ==
  ASSUME TypeInv, ServedInv,
         UploadArchive \/ UploadPackage \/ UploadLatest \/ UploadFeed
  PROVE  ServedInv'
<1>t. ReleaseTypeOK /\ InStep
  BY DEF TypeInv
<1>f. /\ origin.feed \in Feeds \cup {None}
      /\ \A e \in Edges : edge[e].feed \in Feeds \cup {None}
      /\ version \in Versions
  BY <1>t DEF ReleaseTypeOK
<1>u. version' = version
  BY DEF UploadArchive, UploadPackage, UploadLatest, UploadFeed, Uploads
<1> USE DEF Feeds
<1>1. CASE UploadArchive
  <2>1. Publishing({"archive"}) /\ Publishing({"archive", "package", "latest", "appcast"})
    BY <1>1 DEF UploadArchive, Uploads, At, Publishing
  <2>2. UNCHANGED <<edge, forced>>
    BY <1>1 DEF UploadArchive, Uploads
  <2>3. origin'.zips = [origin.zips EXCEPT ![version] = zip[version]]
        /\ origin'.pkgs = origin.pkgs /\ origin'.latest = origin.latest /\ origin'.feed = origin.feed
    BY <1>1, <1>t DEF UploadArchive, Uploads, ReleaseTypeOK
  <2>4. \A v \in Versions : v # version => origin'.zips[v] = origin.zips[v]
    BY <1>t, <2>3 DEF ReleaseTypeOK
  <2>5. version \notin forced => origin.zips[version] = None
    BY <1>t, <2>1 DEF InStep
  <2>6. ASSUME NEW f \in Feeds \cup {None}, Verified(f)
        PROVE  f # None /\ f.version \notin forced' =>
                 origin'.zips[f.version] # None /\ origin'.zips[f.version].id = f.signs
    BY <2>2, <2>4, <2>5, <2>6 DEF Verified
  <2>7. Keychain => Verified(origin.feed)' /\ \A e \in Edges : Verified(edge[e].feed)'
    BY <1>f, <2>2, <2>3, <2>6 DEF ServedInv, Verified
  <2>8. \A e \in Edges : Copies(e)'
    BY <2>2, <2>4, <2>5 DEF ServedInv, Copies
  <2>9. FeedComesLast'
    BY <2>3 DEF ServedInv, FeedComesLast
  <2> QED
    BY <1>u, <2>3, <2>7, <2>8, <2>9 DEF ServedInv
<1>2. CASE UploadPackage \/ UploadLatest
  <2>1. Publishing({"archive", "package", "latest", "appcast"})
    BY <1>2 DEF UploadPackage, UploadLatest, Uploads, At, Publishing
  <2>2. UNCHANGED <<edge, forced>>
    BY <1>2 DEF UploadPackage, UploadLatest, Uploads
  <2>3. /\ origin'.zips = origin.zips /\ origin'.feed = origin.feed
        /\ origin'.pkgs \in {origin.pkgs, [origin.pkgs EXCEPT ![version] = pkg[version]]}
        /\ origin'.latest \in {origin.latest, [version |-> version, pkg |-> pkg[version]]}
    BY <1>2, <1>t DEF UploadPackage, UploadLatest, Uploads, ReleaseTypeOK
  <2>4. pkg[version] # None /\ pkg[version] \in Packages
    BY <1>t, <2>1 DEF InStep, ReleaseTypeOK
  <2>5. ASSUME origin'.feed # None PROVE origin'.pkgs[origin'.feed.version] # None
    BY <1>f, <1>t, <2>3, <2>4, <2>5 DEF ServedInv, FeedComesLast, ReleaseTypeOK
  <2>6. ASSUME origin'.feed # None
        PROVE  origin'.latest \in Latest /\ origin'.latest.version >= origin'.feed.version
    <3>1. origin.latest \in Latest /\ origin.latest.version >= origin.feed.version
      BY <2>3, <2>6 DEF ServedInv, FeedComesLast
    <3>2. version >= origin.feed.version
      BY <1>f, <2>3, <2>6, ReleaseAssumption DEF ServedInv
    <3>3. [version |-> version, pkg |-> pkg[version]] \in Latest
      BY <1>f, <2>4 DEF Latest
    <3> QED
      BY <2>3, <3>1, <3>2, <3>3
  <2>7. FeedComesLast'
    BY <2>5, <2>6 DEF FeedComesLast
  <2>8. Keychain => Verified(origin.feed)' /\ \A e \in Edges : Verified(edge[e].feed)'
    BY <2>2, <2>3 DEF ServedInv, Verified
  <2>9. \A e \in Edges : Copies(e)'
    BY <2>2, <2>3 DEF ServedInv, Copies
  <2> QED
    BY <1>u, <2>3, <2>7, <2>8, <2>9 DEF ServedInv
<1>3. CASE UploadFeed
  <2>1. /\ Publishing({"archive", "package", "latest", "appcast"}) /\ Publishing({"appcast"})
        /\ Publishing({"package", "latest", "appcast"}) /\ Publishing({"latest", "appcast"})
    BY <1>3 DEF UploadFeed, Uploads, At, Publishing
  <2>2. UNCHANGED <<edge, forced>>
    BY <1>3 DEF UploadFeed, Uploads
  <2>3. /\ origin'.zips = origin.zips /\ origin'.feed = feed
        /\ origin'.pkgs = origin.pkgs /\ origin'.latest = origin.latest
    BY <1>3, <1>t DEF UploadFeed, Uploads, ReleaseTypeOK
  <2>4. /\ feed.version = version
        /\ Keychain => feed.signs = zip[version].id
        /\ origin.zips[version] = zip[version] /\ zip[version] # None
        /\ origin.pkgs[version] # None
        /\ origin.latest \in Latest /\ origin.latest.version = version
    BY <1>t, <2>1 DEF InStep
  <2>5. Keychain => Verified(origin.feed)'
    BY <2>3, <2>4 DEF Verified
  <2>n. version \in Nat
    BY <1>f, ReleaseAssumption
  <2>6. FeedComesLast' /\ (origin'.feed # None => origin'.feed.version <= version')
    BY <1>u, <2>3, <2>4, <2>n DEF FeedComesLast
  <2>7. Keychain => \A e \in Edges : Verified(edge[e].feed)'
    BY <2>2, <2>3 DEF ServedInv, Verified
  <2>8. \A e \in Edges : Copies(e)'
    BY <2>2, <2>3 DEF ServedInv, Copies
  <2> QED
    BY <2>5, <2>6, <2>7, <2>8 DEF ServedInv
<1> QED
  BY <1>1, <1>2, <1>3

\* The edges.
LEMMA ServedEdges ==
  ASSUME TypeInv, ServedInv, NEW e \in Edges, FetchPublished(e) \/ Verify(e) \/ Asks(e) \/ Expire(e)
  PROVE  ServedInv'
<1>t. ReleaseTypeOK /\ Control
  BY DEF TypeInv
<1>s. /\ edge \in [Edges -> Cache]
      /\ ServedFeed(e) \in Feeds \cup {None}
  BY <1>t, ServedType DEF ReleaseTypeOK, Cache
<1>u. UNCHANGED <<version, origin, forced>>
  BY DEF FetchPublished, Verify, Asks, Expire
<1>v. Keychain => Verified(ServedFeed(e))
  BY DEF ServedInv, ServedFeed
<1>1. \A x \in Edges : x # e => edge'[x] = edge[x]
  BY <1>s DEF FetchPublished, Verify, Asks, Expire
<1>2. edge'[e].feed \in {edge[e].feed, ServedFeed(e), None}
  <2>1. CASE FetchPublished(e)
    BY <1>s, <2>1 DEF FetchPublished, Cache
  <2>2. CASE Verify(e) \/ Asks(e) \/ Expire(e)
    BY <1>s, <2>2 DEF Verify, Asks, Expire, Cache
  <2> QED
    BY <2>1, <2>2
<1>3. \A v \in Versions : edge'[e].zips[v] \in {edge[e].zips[v], ServedZip(e, v)}
  <2>1. CASE FetchPublished(e)
    <3>1. \/ UNCHANGED edge
          \/ edge' = [edge EXCEPT ![e].zips[Head(todo).to] = ServedZip(e, Head(todo).to)]
      BY <2>1 DEF FetchPublished
    <3> QED
      BY <1>s, <3>1 DEF Cache
  <2>2. CASE Asks(e)
    <3> DEFINE c == [zips |-> [edge[e].zips EXCEPT ![ServedFeed(e).version] = ServedZip(e, ServedFeed(e).version)],
                     feed |-> ServedFeed(e)]
    <3>1. edge' = [edge EXCEPT ![e] = c]
      BY <2>2 DEF Asks
    <3>2. edge'[e] = c
      BY <1>s, <3>1
    <3> QED
      BY <1>s, <3>2 DEF Cache
  <2>3. CASE Verify(e) \/ Expire(e)
    BY <1>s, <2>3 DEF Verify, Expire, Cache
  <2> QED
    BY <2>1, <2>2, <2>3
<1>4. Keychain => \A x \in Edges : Verified(edge[x].feed)'
  <2> SUFFICES ASSUME Keychain, NEW x \in Edges PROVE Verified(edge[x].feed)'
    OBVIOUS
  <2>1. CASE x = e
    BY <1>2, <1>u, <1>v, <2>1 DEF ServedInv, Verified
  <2>2. CASE x # e
    BY <1>1, <1>u, <2>2 DEF ServedInv, Verified
  <2> QED
    BY <2>1, <2>2
<1>5. \A x \in Edges : Copies(x)'
  <2> SUFFICES ASSUME NEW x \in Edges PROVE Copies(x)'
    OBVIOUS
  <2>1. CASE x = e
    BY <1>3, <1>u, <2>1 DEF ServedInv, Copies, ServedZip
  <2>2. CASE x # e
    BY <1>1, <1>u, <2>2 DEF ServedInv, Copies
  <2> QED
    BY <2>1, <2>2
<1>6. Keychain => Verified(origin.feed)'
  BY <1>u DEF ServedInv, Verified
<1>7. FeedComesLast'
  BY <1>u DEF ServedInv, FeedComesLast
<1> QED
  BY <1>u, <1>4, <1>5, <1>6, <1>7 DEF ServedInv

LEMMA ServedStep == TypeInv /\ ServedInv /\ [Next]_releaseVars => ServedInv'
<1> SUFFICES ASSUME TypeInv, ServedInv, [Next]_releaseVars PROVE ServedInv'
  OBVIOUS
<1>1. CASE UNCHANGED <<version, origin, edge, forced>>
  BY <1>1 DEF ServedInv, FeedComesLast, Verified, Copies
<1>2. CASE CheckRelease
  <2>1. UNCHANGED <<version, origin, edge>> /\ forced \subseteq forced'
    BY <1>2 DEF CheckRelease
  <2> QED
    BY <2>1 DEF ServedInv, FeedComesLast, Verified, Copies
<1>3. CASE UploadArchive \/ UploadPackage \/ UploadLatest \/ UploadFeed
  BY <1>3, ServedUploads
<1>4. CASE Invalidate
  <2>1. UNCHANGED <<version, origin, forced>>
    BY <1>4 DEF Invalidate
  <2>2. edge \in [Edges -> Cache]
    BY DEF TypeInv, ReleaseTypeOK, Cache
  <2>3. \A e \in Edges : edge'[e].feed \in {edge[e].feed, None} /\ edge'[e].zips = edge[e].zips
    BY <1>4, <2>2 DEF Invalidate, Cache
  <2> QED
    BY <2>1, <2>3 DEF ServedInv, FeedComesLast, Verified, Copies
<1>5. ASSUME NEW e \in Edges, FetchPublished(e) \/ Verify(e) \/ Asks(e) \/ Expire(e) PROVE ServedInv'
  BY <1>5, ServedEdges
<1>6. CASE (\E recipe \in Recipes : Begin(recipe)) \/ Stops
  BY <1>1, <1>6 DEF Begin, Stops
<1>9. CASE Raise
  <2>1. UNCHANGED <<origin, edge, forced>> /\ version' = version + 1
    BY <1>9 DEF Raise
  <2>2. origin.feed # None => origin.feed.version \in Nat /\ version \in Nat
    BY ReleaseAssumption DEF TypeInv, ReleaseTypeOK, Feeds
  <2>3. origin'.feed # None => origin'.feed.version <= version'
    BY <2>1, <2>2 DEF ServedInv
  <2> QED
    BY <2>1, <2>3 DEF ServedInv, FeedComesLast, Verified, Copies
<1>7. CASE BuildProduct \/ Notarize \/ Pack \/ WriteFeed \/ SignFeed \/ Validate \/ WriteCask \/ CheckCask
  BY <1>1, <1>7 DEF BuildProduct, Notarize, Pack, WriteFeed, SignFeed, Validate, WriteCask, CheckCask
<1>8. CASE UNCHANGED releaseVars
  BY <1>1, <1>8 DEF releaseVars
<1> QED
  BY <1>2, <1>3, <1>4, <1>5, <1>6, <1>7, <1>8, <1>9 DEF Next, Steps

LEMMA ServedInvariance == Spec => [](TypeInv /\ ServedInv)
BY InitTyped, TypeStep, ServedInit, ServedStep, PTL DEF Spec

\* A feed is out only with its package, and the download button is never behind
\* it, wherever a publish stops and whatever is published afterwards
\* (cmd/publish/main.go:201-237).
THEOREM FeedIsLast == Spec => []FeedComesLast
<1>1. ServedInv => FeedComesLast
  BY DEF ServedInv
<1> QED
  BY <1>1, ServedInvariance, PTL

\* With the signing key in the Keychain, whatever an edge serves verifies,
\* however stale its copies are, for every version that was published once
\* (cmd/publish/main.go:191-196).
THEOREM ServedFeedVerifies == Spec => []ServedVerifies
<1>1. TypeInv /\ ServedInv => ServedVerifies
  <2> SUFFICES ASSUME TypeInv, ServedInv, Keychain, NEW e \in Edges,
                      ServedFeed(e) # None, ServedFeed(e).version \notin forced
               PROVE  /\ ServedZip(e, ServedFeed(e).version) # None
                      /\ ServedZip(e, ServedFeed(e).version).id = ServedFeed(e).signs
    BY DEF ServedVerifies
  <2>1. ServedFeed(e).version \in Versions
    BY ServedType DEF TypeInv, Feeds
  <2>2. Verified(ServedFeed(e))
    BY DEF ServedInv, ServedFeed
  <2> QED
    BY <2>1, <2>2 DEF ServedInv, Verified, Copies, ServedZip
<1> QED
  BY <1>1, ServedInvariance, PTL
-----------------------------------------------------------------------------
\* One release, from its first command to its last.

\* What is left of the recipe before each of its commands.
ToAppcast == <<Cmd("appcast"), Cmd("publish"), Cmd("cask")>>
ToPublish == <<Cmd("publish"), Cmd("cask")>>
ToCask == <<Cmd("cask")>>

LEMMA RecipeOrder ==
  /\ ReleaseRecipe # <<>> /\ Head(ReleaseRecipe).name = "pkg-notarized" /\ Tail(ReleaseRecipe) = ToAppcast
  /\ ToAppcast # <<>> /\ Head(ToAppcast).name = "appcast" /\ Tail(ToAppcast) = ToPublish
  /\ ToPublish # <<>> /\ Head(ToPublish).name = "publish" /\ Tail(ToPublish) = ToCask
  /\ ToCask # <<>> /\ Head(ToCask).name = "cask" /\ Tail(ToCask) = <<>>
<1> DEFINE a == Cmd("pkg-notarized")
           b == Cmd("appcast")
           c == Cmd("publish")
           d == Cmd("cask")
<1>1. a.name = "pkg-notarized" /\ b.name = "appcast" /\ c.name = "publish" /\ d.name = "cask"
  BY DEF Cmd
<1> HIDE DEF a, b, c, d
<1>2. /\ <<a, b, c, d>> # <<>> /\ Head(<<a, b, c, d>>) = a /\ Tail(<<a, b, c, d>>) = <<b, c, d>>
      /\ <<b, c, d>> # <<>> /\ Head(<<b, c, d>>) = b /\ Tail(<<b, c, d>>) = <<c, d>>
      /\ <<c, d>> # <<>> /\ Head(<<c, d>>) = c /\ Tail(<<c, d>>) = <<d>>
      /\ <<d>> # <<>> /\ Head(<<d>>) = d /\ Tail(<<d>>) = <<>>
  OBVIOUS
<1> QED
  BY <1>1, <1>2 DEF ReleaseRecipe, ToAppcast, ToPublish, ToCask, a, b, c, d

\* The steps of the recipe that come after each of its effects.
Listed(name, step) == name = "cask" /\ step = "check"
Advertises(name, step) ==
  Listed(name, step) \/ (name = "cask" /\ step = "begin")
                     \/ (name = "publish" /\ step \in {"verify", "invalidate"})
Linked(name, step) == Advertises(name, step) \/ (name = "publish" /\ step = "appcast")
Uploaded(name, step) == Linked(name, step) \/ (name = "publish" /\ step = "latest")
Archived(name, step) == Uploaded(name, step) \/ (name = "publish" /\ step = "package")
Signed(name, step) ==
  Archived(name, step) \/ (name = "publish" /\ step \in {"archive", "begin"})
                       \/ (name = "appcast" /\ step = "validate")
Written(name, step) == Signed(name, step) \/ (name = "appcast" /\ step = "sign")
Packed(name, step) == Written(name, step) \/ (name = "appcast" /\ step = "feed")
Notarized(name, step) == Packed(name, step) \/ (name = "appcast" /\ step = "begin")

Ready(name, step) ==
  /\ Notarized(name, step) => pkg[version] \in Packages /\ pkg[version].ticket
  /\ Packed(name, step) => zip[version].pkg = pkg[version]
  /\ Written(name, step) => feed.version = version /\ feed.signs = zip[version].id
  /\ Signed(name, step) => feed.signed
  /\ Archived(name, step) => origin.zips[version] = zip[version]
  /\ Uploaded(name, step) => origin.pkgs[version] = pkg[version]
  /\ Linked(name, step) => origin.latest = [version |-> version, pkg |-> pkg[version]]
  /\ Advertises(name, step) => origin.feed = feed
  /\ Listed(name, step) => cask = [version |-> version, sum |-> pkg[version]]

\* What ReleaseIsWhole says of the end.
Whole ==
  /\ origin.pkgs[origin.feed.version].ticket
  /\ origin.zips[origin.feed.version].id = origin.feed.signs
  /\ origin.zips[origin.feed.version].pkg = origin.pkgs[origin.feed.version]
  /\ origin.latest = [version |-> origin.feed.version, pkg |-> origin.pkgs[origin.feed.version]]
  /\ origin.feed.signed
  /\ cask = [version |-> origin.feed.version, sum |-> origin.pkgs[origin.feed.version]]

WholeInv ==
  result.recipe = ReleaseRecipe =>
    /\ todo \in {ReleaseRecipe, ToAppcast, ToPublish, ToCask, <<>>}
    /\ todo # <<>> => ~result.ok /\ Ready(Head(todo).name, at)
    /\ todo = <<>> /\ result.ok => Whole

\* A recipe that fails was not a success.
LEMMA WholeFails == ASSUME WholeInv, ~Idle, Fails PROVE WholeInv'
BY DEF WholeInv, Idle, Fails

\* A step that stays within its command.
LEMMA WholeGoes ==
  ASSUME WholeInv, ~Idle, NEW name, NEW step, Goes(step), Head(todo).name = name, Ready(name, step)'
  PROVE  WholeInv'
<1>1. Ready(Head(todo).name, at)'
  BY DEF Goes, Ready, Notarized, Packed, Written, Signed, Archived, Uploaded, Linked, Advertises, Listed
<1> QED
  BY <1>1 DEF WholeInv, Idle, Goes

\* The last step of a command.
LEMMA WholeSucceeds ==
  ASSUME WholeInv, Control, ~Idle, Succeeds, NEW name,
         result.recipe = ReleaseRecipe =>
           /\ Tail(todo) # <<>> => Head(Tail(todo)).name = name /\ Ready(name, "begin")'
           /\ Tail(todo) = <<>> => Whole'
  PROVE  WholeInv'
<1>1. result \in [recipe : Seq(Commands), ok : BOOLEAN]
  BY DEF Control
<1>2. result'.recipe = result.recipe /\ (Tail(todo) # <<>> => result'.ok = result.ok)
  <2> DEFINE S == Seq(Commands)
  <2> HIDE DEF S
  <2>1. result \in [recipe : S, ok : BOOLEAN]
    BY <1>1 DEF S
  <2> QED
    BY <2>1 DEF Succeeds
<1>3. CASE result.recipe # ReleaseRecipe
  BY <1>2, <1>3 DEF WholeInv
<1>4. CASE result.recipe = ReleaseRecipe
  <2>1. todo' \in {ToAppcast, ToPublish, ToCask, <<>>}
    BY <1>4, RecipeOrder DEF WholeInv, Idle, Succeeds
  <2>2. ASSUME todo' # <<>> PROVE ~result'.ok /\ Ready(Head(todo).name, at)'
    <3>1. Head(todo').name = name /\ at' = "begin" /\ Ready(name, "begin")'
      BY <1>4, <2>2 DEF Succeeds
    <3>2. Ready(Head(todo).name, at)'
      BY <3>1 DEF Ready, Notarized, Packed, Written, Signed, Archived, Uploaded, Linked, Advertises, Listed
    <3>3. ~result'.ok
      BY <1>2, <1>4, <2>2 DEF WholeInv, Idle, Succeeds
    <3> QED
      BY <3>2, <3>3
  <2>3. todo' = <<>> => Whole'
    BY <1>4 DEF Succeeds
  <2> QED
    BY <2>1, <2>2, <2>3 DEF WholeInv
<1> QED
  BY <1>3, <1>4

\* Where a step of the recipe is.
LEMMA WholeAt ==
  ASSUME WholeInv, result.recipe = ReleaseRecipe, NEW name, NEW step, At(name, step)
  PROVE  /\ Ready(name, step)
         /\ name = "pkg-notarized" => todo = ReleaseRecipe
         /\ name = "appcast" => todo = ToAppcast
         /\ name = "publish" => todo = ToPublish
         /\ name = "cask" => todo = ToCask
         /\ name \in {"pkg-notarized", "appcast", "publish", "cask"}
BY RecipeOrder DEF WholeInv, At, Idle

LEMMA WholeLocal ==
  ASSUME TypeInv, WholeInv,
         BuildProduct \/ Notarize \/ Pack \/ WriteFeed \/ SignFeed \/ Validate \/ WriteCask \/ CheckCask
  PROVE  WholeInv'
<1>t. ReleaseTypeOK /\ Control /\ InStep
  BY DEF TypeInv
<1> USE DEF Notarized, Packed, Written, Signed, Archived, Uploaded, Linked, Advertises, Listed
<1>0. ~Idle
  BY DEF BuildProduct, Notarize, Pack, WriteFeed, SignFeed, Validate, WriteCask, CheckCask, At
<1>n. CASE result.recipe # ReleaseRecipe
  <2>1. result'.recipe = result.recipe
    <3> DEFINE S == Seq(Commands)
    <3> HIDE DEF S
    <3>1. result \in [recipe : S, ok : BOOLEAN]
      BY <1>t DEF Control, S
    <3> QED
      BY <3>1 DEF BuildProduct, Notarize, Pack, WriteFeed, SignFeed, Validate, WriteCask, CheckCask,
                  Goes, Succeeds, Fails
  <2> QED
    BY <1>n, <2>1 DEF WholeInv
<1>r. CASE result.recipe = ReleaseRecipe
  <2>1. CASE BuildProduct
    <3>1. Head(todo).name = "pkg-notarized"
      BY <1>r, <2>1, WholeAt DEF BuildProduct, At
    <3>2. Goes("notarize") /\ Ready("pkg-notarized", "notarize")'
      BY <2>1, <3>1 DEF BuildProduct, Goes, Ready
    <3> QED
      BY <1>0, <3>1, <3>2, WholeGoes
  <2>2. CASE Notarize
    <3>1. todo = ReleaseRecipe
      BY <1>r, <2>2, WholeAt DEF Notarize
    <3>2. pkg[version] \in Packages
      BY <1>t, <2>2 DEF Notarize, InStep
    <3>3. CASE Fails
      BY <1>0, <3>3, WholeFails
    <3>4. CASE Succeeds /\ pkg' = [pkg EXCEPT ![version].ticket = TRUE]
      <4>1. pkg'[version] \in Packages /\ pkg'[version].ticket
        BY <1>t, <3>2, <3>4 DEF ReleaseTypeOK, Packages
      <4>2. version' = version
        BY <2>2 DEF Notarize
      <4>3. Ready("appcast", "begin")'
        BY <4>1, <4>2 DEF Ready
      <4>4. Tail(todo) = ToAppcast
        BY <3>1, RecipeOrder
      <4>5. Tail(todo) # <<>> /\ Head(Tail(todo)).name = "appcast"
        BY <4>4, RecipeOrder
      <4> QED
        BY <1>0, <1>t, <3>4, <4>3, <4>5, WholeSucceeds
    <3> QED
      BY <2>2, <3>3, <3>4 DEF Notarize
  <2>3. CASE Pack
    <3>1. CASE Fails
      BY <1>0, <3>1, WholeFails
    <3>2. CASE ~Fails
      <4>1. /\ Goes("feed") /\ Head(todo).name = "appcast"
            /\ zip' = [zip EXCEPT ![version] = [id |-> made + 1, pkg |-> pkg[version]]]
            /\ UNCHANGED <<version, pkg>>
        BY <2>3, <3>2 DEF Pack, At
      <4>2. Ready("appcast", "begin")
        BY <1>r, <2>3, WholeAt DEF Pack
      <4>3. zip'[version].pkg = pkg[version]
        BY <1>t, <4>1 DEF ReleaseTypeOK
      <4>4. Ready("appcast", "feed")'
        BY <4>1, <4>2, <4>3 DEF Ready
      <4> QED
        BY <1>0, <4>1, <4>4, WholeGoes
    <3> QED
      BY <3>1, <3>2
  <2>4. CASE WriteFeed
    <3>1. At("appcast", "feed")
      BY <1>r, <2>4, WholeAt DEF WriteFeed
    <3>2. Ready("appcast", "feed")
      BY <1>r, <3>1, WholeAt
    <3>3. Goes("sign") /\ Head(todo).name = "appcast" /\ UNCHANGED <<version, pkg, zip>>
      BY <2>4, <3>1 DEF WriteFeed, At
    <3>4. feed'.version = version /\ feed'.signs = zip[version].id
      BY <2>4, <3>3 DEF WriteFeed, Advertised
    <3>5. Ready("appcast", "sign")'
      BY <3>2, <3>3, <3>4 DEF Ready
    <3> QED
      BY <1>0, <3>3, <3>5, WholeGoes
  <2>8. CASE SignFeed
    <3>1. At("appcast", "sign")
      BY <1>r, <2>8, WholeAt DEF SignFeed
    <3>2. Ready("appcast", "sign")
      BY <1>r, <3>1, WholeAt
    <3>3. Goes("validate") /\ Head(todo).name = "appcast" /\ UNCHANGED <<version, pkg, zip>>
      BY <2>8, <3>1 DEF SignFeed, At
    <3>4. feed'.version = feed.version /\ feed'.signs = feed.signs /\ feed'.signed
      <4>1. feed \in Feeds
        BY <1>t, <3>1 DEF InStep
      <4> QED
        BY <2>8, <4>1 DEF SignFeed, Feeds
    <3>5. Ready("appcast", "validate")'
      BY <3>2, <3>3, <3>4 DEF Ready
    <3> QED
      BY <1>0, <3>3, <3>5, WholeGoes
  <2>5. CASE Validate
    <3>1. At("appcast", "validate")
      BY <1>r, <2>5, WholeAt DEF Validate
    <3>2. CASE Fails
      BY <1>0, <3>2, WholeFails
    <3>3. CASE Succeeds
      <4>1. Ready("appcast", "validate") /\ todo = ToAppcast
        BY <1>r, <3>1, WholeAt
      <4>2. Ready("publish", "begin")'
        BY <2>5, <4>1 DEF Validate, Ready
      <4>3. Tail(todo) # <<>> /\ Head(Tail(todo)).name = "publish"
        BY <4>1, RecipeOrder
      <4> QED
        BY <1>0, <1>t, <3>3, <4>2, <4>3, WholeSucceeds
    <3> QED
      BY <2>5, <3>2, <3>3 DEF Validate
  <2>6. CASE WriteCask
    <3>1. CASE Fails
      BY <1>0, <3>1, WholeFails
    <3>2. CASE ~Fails
      <4>1. /\ Goes("check") /\ Head(todo).name = "cask"
            /\ cask' = [version |-> version, sum |-> pkg[version]]
            /\ UNCHANGED <<version, pkg, zip, feed, origin>>
        BY <2>6, <3>2 DEF WriteCask, At
      <4>2. Ready("cask", "begin")
        BY <1>r, <2>6, WholeAt DEF WriteCask
      <4>3. Ready("cask", "check")'
        BY <4>1, <4>2 DEF Ready
      <4> QED
        BY <1>0, <4>1, <4>3, WholeGoes
    <3> QED
      BY <3>1, <3>2
  <2>7. CASE CheckCask
    <3>1. CASE Fails
      BY <1>0, <3>1, WholeFails
    <3>2. CASE Succeeds
      <4>1. Ready("cask", "check") /\ todo = ToCask
        BY <1>r, <2>7, WholeAt DEF CheckCask
      <4>2. UNCHANGED <<version, pkg, zip, feed, cask, origin>>
        BY <2>7 DEF CheckCask
      <4>3. Whole
        BY <4>1 DEF Ready, Whole
      <4>4. Whole'
        BY <4>2, <4>3 DEF Whole
      <4>5. Tail(todo) = <<>>
        BY <4>1, RecipeOrder
      <4> QED
        BY <1>0, <1>t, <3>2, <4>4, <4>5, WholeSucceeds
    <3> QED
      BY <2>7, <3>1, <3>2 DEF CheckCask
  <2> QED
    BY <2>1, <2>2, <2>3, <2>4, <2>5, <2>6, <2>7, <2>8
<1> QED
  BY <1>n, <1>r

LEMMA WholePublish ==
  ASSUME TypeInv, WholeInv,
         \/ CheckRelease \/ UploadArchive \/ UploadPackage \/ UploadLatest \/ UploadFeed \/ Invalidate
         \/ \E e \in Edges : FetchPublished(e) \/ Verify(e)
  PROVE  WholeInv'
<1>t. ReleaseTypeOK /\ Control /\ InStep
  BY DEF TypeInv
<1> USE DEF Notarized, Packed, Written, Signed, Archived, Uploaded, Linked, Advertises, Listed
<1>0. ~Idle
  BY DEF CheckRelease, UploadArchive, UploadPackage, UploadLatest, UploadFeed, Uploads, Invalidate,
         FetchPublished, Verify, At
<1>n. CASE result.recipe # ReleaseRecipe
  <2>1. result'.recipe = result.recipe
    <3> DEFINE S == Seq(Commands)
    <3> HIDE DEF S
    <3>1. result \in [recipe : S, ok : BOOLEAN]
      BY <1>t DEF Control, S
    <3> QED
      BY <3>1 DEF CheckRelease, UploadArchive, UploadPackage, UploadLatest, UploadFeed, Uploads,
                  Invalidate, FetchPublished, Verify, Goes, Succeeds, Fails
  <2> QED
    BY <1>n, <2>1 DEF WholeInv
<1>r. CASE result.recipe = ReleaseRecipe
  <2>1. CASE CheckRelease
    <3>1. CASE Fails
      BY <1>0, <3>1, WholeFails
    <3>2. CASE ~Fails
      <4>1. Goes("archive") /\ Head(todo).name = "publish" /\ UNCHANGED <<version, pkg, zip, feed>>
        BY <2>1, <3>2 DEF CheckRelease, At
      <4>2. Ready("publish", "begin")
        BY <1>r, <2>1, WholeAt DEF CheckRelease
      <4>3. Ready("publish", "archive")'
        BY <4>1, <4>2 DEF Ready
      <4> QED
        BY <1>0, <4>1, <4>3, WholeGoes
    <3> QED
      BY <3>1, <3>2
  <2>2. CASE UploadArchive
    <3>1. /\ Goes("package") /\ Head(todo).name = "publish" /\ UNCHANGED <<version, pkg, zip, feed>>
          /\ origin' = [origin EXCEPT !.zips[version] = zip[version]]
      BY <2>2 DEF UploadArchive, Uploads, At
    <3>2. origin'.zips[version] = zip[version]
      BY <1>t, <3>1 DEF ReleaseTypeOK
    <3>3. Ready("publish", "archive")
      BY <1>r, <2>2, WholeAt DEF UploadArchive, Uploads
    <3>4. Ready("publish", "package")'
      BY <3>1, <3>2, <3>3 DEF Ready
    <3> QED
      BY <1>0, <3>1, <3>4, WholeGoes
  <2>3. CASE UploadPackage
    <3>1. /\ Goes("latest") /\ Head(todo).name = "publish" /\ UNCHANGED <<version, pkg, zip, feed>>
          /\ origin' = [origin EXCEPT !.pkgs[version] = pkg[version]]
      BY <2>3 DEF UploadPackage, Uploads, At
    <3>2. origin'.pkgs[version] = pkg[version] /\ origin'.zips = origin.zips
      BY <1>t, <3>1 DEF ReleaseTypeOK
    <3>3. Ready("publish", "package")
      BY <1>r, <2>3, WholeAt DEF UploadPackage, Uploads
    <3>4. Ready("publish", "latest")'
      BY <3>1, <3>2, <3>3 DEF Ready
    <3> QED
      BY <1>0, <3>1, <3>4, WholeGoes
  <2>4. CASE UploadLatest
    <3>1. /\ Goes("appcast") /\ Head(todo).name = "publish" /\ UNCHANGED <<version, pkg, zip, feed>>
          /\ origin' = [origin EXCEPT !.latest = [version |-> version, pkg |-> pkg[version]]]
      BY <2>4 DEF UploadLatest, Uploads, At
    <3>2. /\ origin'.latest = [version |-> version, pkg |-> pkg[version]]
          /\ origin'.zips = origin.zips /\ origin'.pkgs = origin.pkgs
      BY <1>t, <3>1 DEF ReleaseTypeOK
    <3>3. Ready("publish", "latest")
      BY <1>r, <2>4, WholeAt DEF UploadLatest, Uploads
    <3>4. Ready("publish", "appcast")'
      BY <3>1, <3>2, <3>3 DEF Ready
    <3> QED
      BY <1>0, <3>1, <3>4, WholeGoes
  <2>5. CASE UploadFeed
    <3>1. /\ Goes("invalidate") /\ Head(todo).name = "publish" /\ UNCHANGED <<version, pkg, zip, feed>>
          /\ origin' = [origin EXCEPT !.feed = feed]
      BY <2>5 DEF UploadFeed, Uploads, At
    <3>2. /\ origin'.feed = feed /\ origin'.latest = origin.latest
          /\ origin'.zips = origin.zips /\ origin'.pkgs = origin.pkgs
      BY <1>t, <3>1 DEF ReleaseTypeOK
    <3>3. Ready("publish", "appcast")
      BY <1>r, <2>5, WholeAt DEF UploadFeed, Uploads
    <3>4. Ready("publish", "invalidate")'
      BY <3>1, <3>2, <3>3 DEF Ready
    <3> QED
      BY <1>0, <3>1, <3>4, WholeGoes
  <2>6. CASE Invalidate
    <3>1. Goes("verify") /\ Head(todo).name = "publish" /\ UNCHANGED <<version, pkg, zip, feed, origin>>
      BY <2>6 DEF Invalidate, At
    <3>2. Ready("publish", "invalidate")
      BY <1>r, <2>6, WholeAt DEF Invalidate
    <3>3. Ready("publish", "verify")'
      BY <3>1, <3>2 DEF Ready
    <3> QED
      BY <1>0, <3>1, <3>3, WholeGoes
  <2>7. ASSUME NEW e \in Edges, FetchPublished(e) PROVE WholeInv'
    BY <1>r, <2>7, WholeAt DEF FetchPublished
  <2>8. ASSUME NEW e \in Edges, Verify(e) PROVE WholeInv'
    <3>1. CASE Fails
      BY <1>0, <3>1, WholeFails
    <3>2. CASE Succeeds
      <4>1. Ready("publish", "verify") /\ todo = ToPublish
        BY <1>r, <2>8, WholeAt DEF Verify
      <4>2. Ready("cask", "begin")'
        BY <2>8, <4>1 DEF Verify, Ready
      <4>3. Tail(todo) # <<>> /\ Head(Tail(todo)).name = "cask"
        BY <4>1, RecipeOrder
      <4> QED
        BY <1>0, <1>t, <3>2, <4>2, <4>3, WholeSucceeds
    <3>3. CASE Goes("verify")
      <4>1. /\ Ready("publish", "verify") /\ Head(todo).name = "publish"
            /\ UNCHANGED <<version, pkg, zip, feed, origin>>
        BY <1>r, <2>8, WholeAt DEF Verify, At
      <4>2. Ready("publish", "verify")'
        BY <4>1 DEF Ready
      <4> QED
        BY <1>0, <3>3, <4>1, <4>2, WholeGoes
    <3> QED
      BY <2>8, <3>1, <3>2, <3>3 DEF Verify
  <2> QED
    BY <2>1, <2>2, <2>3, <2>4, <2>5, <2>6, <2>7, <2>8
<1> QED
  BY <1>n, <1>r

LEMMA WholeInit == Init => WholeInv
<1> SUFFICES ASSUME Init PROVE result.recipe # ReleaseRecipe
  BY DEF WholeInv
<1> QED
  BY RecipeOrder DEF Init

LEMMA WholeStep == TypeInv /\ WholeInv /\ [Next]_releaseVars => WholeInv'
<1> SUFFICES ASSUME TypeInv, WholeInv, [Next]_releaseVars PROVE WholeInv'
  OBVIOUS
<1>1. ASSUME NEW recipe \in Recipes, Begin(recipe) PROVE WholeInv'
  <2>1. result' = [recipe |-> recipe, ok |-> FALSE] /\ todo' = recipe /\ at' = "begin"
    BY <1>1 DEF Begin
  <2>2. recipe = ReleaseRecipe => Ready("pkg-notarized", "begin")'
    BY DEF Ready, Notarized, Packed, Written, Signed, Archived, Uploaded, Linked, Advertises, Listed
  <2> QED
    BY <2>1, <2>2, RecipeOrder DEF WholeInv
<1>2. CASE Raise
  BY <1>2 DEF Raise, Idle, WholeInv, Whole
<1>3. CASE Stops
  BY <1>3, WholeFails DEF Stops
<1>4. ASSUME NEW e \in Edges, Asks(e) \/ Expire(e) PROVE WholeInv'
  BY <1>4 DEF Asks, Expire, WholeInv, Ready, Whole
<1>5. CASE UNCHANGED releaseVars
  BY <1>5 DEF releaseVars, WholeInv, Ready, Whole
<1> QED
  BY <1>1, <1>2, <1>3, <1>4, <1>5, WholeLocal, WholePublish DEF Next, Steps

\* A release whose every step ended well is one build through every channel,
\* whatever stopped, was rebuilt or was served before it (the four commands of
\* `make release`).
THEOREM OneBuildThroughout == Spec => []ReleaseIsWhole
<1>1. WholeInv => ReleaseIsWhole
  BY DEF WholeInv, ReleaseIsWhole, Whole, Idle
<1> QED
  BY <1>1, WholeInit, WholeStep, InitTyped, TypeStep, PTL DEF Spec

-----------------------------------------------------------------------------
\* The edges.

\* An edge serves the origin's feed.
Caught(e) == ServedFeed(e) = origin.feed

\* An edge that serves the origin's feed serves it for as long as it stays the
\* same: what a command, an installed copy or the edge's own clock makes it
\* keep is that feed, or none.
LEMMA CaughtStays ==
  ASSUME ReleaseTypeOK, NEW e \in Edges, Caught(e), [Next]_releaseVars, UNCHANGED origin
  PROVE  Caught(e)'
<1>t. \A f \in Edges : edge[f] \in Cache /\ edge \in [Edges -> Cache]
  BY ServedType DEF ReleaseTypeOK, Cache
<1>1. ASSUME edge'[e].feed \in {edge[e].feed, ServedFeed(e), None} PROVE Caught(e)'
  BY <1>1 DEF Caught, ServedFeed
<1>2. ASSUME NEW f \in Edges, FetchPublished(f) \/ Verify(f) \/ Asks(f) \/ Expire(f)
      PROVE  Caught(e)'
  <2>1. CASE f # e
    <3>1. edge'[e] = edge[e]
      BY <1>2, <1>t, <2>1 DEF FetchPublished, Verify, Asks, Expire
    <3> QED
      BY <1>1, <3>1
  <2>2. CASE f = e
    <3>1. edge'[e].feed \in {edge[e].feed, ServedFeed(e), None}
      <4>1. CASE FetchPublished(f)
        BY <1>t, <2>2, <4>1 DEF FetchPublished, Cache
      <4>2. CASE Verify(f)
        BY <1>t, <2>2, <4>2 DEF Verify, Cache
      <4>3. CASE Asks(f)
        BY <1>t, <2>2, <4>3 DEF Asks, Cache
      <4>4. CASE Expire(f)
        BY <1>t, <2>2, <4>4 DEF Expire, Cache
      <4> QED
        BY <1>2, <4>1, <4>2, <4>3, <4>4
    <3> QED
      BY <1>1, <3>1
  <2> QED
    BY <2>1, <2>2
<1>3. CASE Invalidate
  <2>1. edge'[e].feed \in {edge[e].feed, None}
    BY <1>t, <1>3 DEF Invalidate, Cache
  <2> QED
    BY <1>1, <2>1
<1>4. ASSUME UNCHANGED edge PROVE Caught(e)'
  BY <1>1, <1>4
<1>5. CASE UNCHANGED releaseVars
  BY <1>4, <1>5 DEF releaseVars
<1>6. CASE (\E recipe \in Recipes : Begin(recipe)) \/ Raise \/ Stops
  BY <1>4, <1>6 DEF Begin, Raise, Stops
<1>7. CASE BuildProduct \/ Notarize \/ Pack \/ WriteFeed \/ SignFeed \/ Validate \/ WriteCask \/ CheckCask
  BY <1>4, <1>7 DEF BuildProduct, Notarize, Pack, WriteFeed, SignFeed, Validate, WriteCask, CheckCask
<1>8. CASE CheckRelease \/ UploadArchive \/ UploadPackage \/ UploadLatest \/ UploadFeed
  BY <1>4, <1>8 DEF CheckRelease, UploadArchive, UploadPackage, UploadLatest, UploadFeed, Uploads
<1> QED
  BY <1>2, <1>3, <1>5, <1>6, <1>7, <1>8 DEF Next, Steps

\* What WF_releaseVars(Expire(e)) says of an edge, with edge[e].feed # None for
\* ENABLED: a kept feed expires, or one is forgotten again and again.
KeepsForAWhile(e) == []<>(edge[e].feed = None) \/ []<><<Expire(e)>>_releaseVars

LEMMA EdgeCatchesUp ==
  ASSUME NEW e \in Edges
  PROVE  Spec /\ KeepsForAWhile(e) => []<><<TRUE>>_origin \/ <>[](ServedFeed(e) = origin.feed)
<1>1. ReleaseTypeOK /\ Caught(e) /\ [Next]_releaseVars /\ [FALSE]_origin => Caught(e)'
  BY CaughtStays
<1>2. edge[e].feed = None => Caught(e)
  BY DEF Caught, ServedFeed
<1>3. ReleaseTypeOK /\ <<Expire(e)>>_releaseVars => Caught(e)'
  <2>1. ReleaseTypeOK /\ Expire(e) => edge'[e].feed = None
    <3> SUFFICES ASSUME ReleaseTypeOK, Expire(e) PROVE edge'[e].feed = None
      OBVIOUS
    <3>1. edge[e] \in Cache /\ edge \in [Edges -> Cache]
      BY ServedType DEF ReleaseTypeOK, Cache
    <3> QED
      BY <3>1 DEF Expire, Cache
  <2> QED
    BY <2>1 DEF Caught, ServedFeed
<1>4. Caught(e) <=> ServedFeed(e) = origin.feed
  BY DEF Caught
<1> QED
  BY <1>1, <1>2, <1>3, <1>4, ReleaseTypeCorrect, PTL DEF Spec, KeepsForAWhile

\* Once the feed stops changing, every edge comes to serve it and goes on to,
\* however many edges and versions there are and whoever asks them meanwhile,
\* if only no edge keeps a feed for ever.
THEOREM FeedReachesEdges == Spec /\ (\A e \in Edges : KeepsForAWhile(e)) => EdgesCatchUp
<1>1. \A e \in Edges :
        Spec /\ KeepsForAWhile(e) => []<><<TRUE>>_origin \/ <>[](ServedFeed(e) = origin.feed)
  BY EdgeCatchesUp
<1> QED
  BY <1>1 DEF EdgesCatchUp
=============================================================================
