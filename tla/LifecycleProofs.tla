-------------------------- MODULE LifecycleProofs ---------------------------
(***************************************************************************)
(* Proofs about module Lifecycle, for any documents, command lines, hosts  *)
(* files and size limit, over any number of lives of the program.          *)
(***************************************************************************)
EXTENDS Lifecycle, TLAPS, SequenceTheorems

Serving == {"startHosts", "spawnLoop", "idle", "hosts", "publish"}

\* main binds before it does anything a client or a later life can see.
BoundAt ==
    /\ pc \in Serving => bound # {}
    /\ pc \in {"down", "bind"} => bound = {}
    /\ bound # {} => <<settings.listen, 443>> \in bound

\* A text that is at hand is one a read may find, and past the fetch it is a
\* config; what differs from a watched file left an event or was lost.
TextAt ==
    /\ pc \in {"fetch", "hosts", "publish"} => opened \in Text
    /\ pc \in {"hosts", "publish"} => Config[opened].ok
    /\ pc = "fetch" => buf <= opened.size
    /\ (pc = "fetch" /\ kind = "watched") => opened = document \/ due \/ lost

\* The settings are those of a config that a start accepted with this command
\* line.
Merged(s) == \E d \in Text : Config[d].ok /\ s.ok /\ s = MergeSettings(Config[d], cli)
SettingsFrom == (bound # {} \/ pc = "bind") => Merged(settings) /\ lastYaml.ok /\ table.ok

\* The table and the last YAML route alike, and are one at the start.
SameRouting ==
    /\ (bound # {} \/ pc = "bind") => Routing(table) = Routing(lastYaml)
    /\ pc \in {"bind", "startHosts"} => table = lastYaml

\* The block of a sync of this life, through the publication of its config.
SyncedAt ==
    synced =>
        /\ bound # {} /\ settings.hostsPath # None
        /\ blocks[Head(settings.hostsPath)].ip = settings.listen
        /\ blocks[Head(settings.hostsPath)].names =
              IF pc = "publish" THEN HostNames(Config[opened]) ELSE HostNames(lastYaml)

Inv == TypeOK /\ BoundAt /\ TextAt /\ SettingsFrom /\ SameRouting /\ SyncedAt

-----------------------------------------------------------------------------
(***************************************************************************)
(* Configs and settings.                                                   *)
(***************************************************************************)

LEMMA ConfigIsText ==
    ASSUME NEW d \in Text, Config[d].ok
    PROVE  Config[d] = FileConfig(d.yaml) /\ Config[d] \in Range(Config) \ {Err}
<1>1. Config[d] # Err
  BY DEF Err
<1>2. Config[d] = ParseYaml(d.yaml)
  BY <1>1 DEF Config
<1>3. Config[d] = FileConfig(d.yaml)
  BY <1>1, <1>2 DEF ParseYaml
<1>4. Config[d] \in Range(Config)
  BY DEF Range, Config
<1> QED BY <1>1, <1>3, <1>4

LEMMA MergedIsRecord ==
    ASSUME NEW y, NEW c, MergeSettings(y, c).ok
    PROVE  /\ MergeSettings(y, c).listen = Listen(y, c) /\ Listen(y, c) \in Loopback
           /\ MergeSettings(y, c).hostsPath = HostsPath(y, c)
           /\ Refresh(y, c) # 0
<1>1. MergeSettings(y, c) # Err
  BY DEF Err
<1> QED BY <1>1 DEF MergeSettings

LEMMA MergedTypes ==
    ASSUME NEW s, Merged(s), cli \in Clis
    PROVE  /\ s.ok /\ s.listen \in Loopback /\ IsOption(s.hostsPath, Path)
           /\ s.hostsPath # None => Head(s.hostsPath) \in Path
<1>1. PICK d \in Text : Config[d].ok /\ s.ok /\ s = MergeSettings(Config[d], cli)
  BY DEF Merged
<1>2. s.listen \in Loopback /\ s.hostsPath = HostsPath(Config[d], cli)
  BY <1>1, MergedIsRecord
<1>3. IsOption(s.hostsPath, Path)
  BY <1>1, <1>2, PathAssumption
<1>4. s.hostsPath # None => Head(s.hostsPath) \in Path
  BY <1>3 DEF IsOption, None
<1> QED BY <1>1, <1>2, <1>3, <1>4

LEMMA SameHostNames ==
    ASSUME NEW c \in Range(Config) \ {Err}, NEW e \in Range(Config) \ {Err}, Routing(c) = Routing(e)
    PROVE  LowerNames(c) = LowerNames(e)
<1>1. ASSUME NEW x \in Range(Config) \ {Err}, NEW y \in Range(Config) \ {Err}, Routing(x) = Routing(y),
             NEW k \in HostNames(x)
      PROVE  Lower[k] \in LowerNames(y)
  <2>1. k \in DOMAIN x.rules /\ k \notin DefaultKeys
    BY <1>1 DEF HostNames
  <2>2. <<Lower[k], x.rules[k]>> \in {<<Lower[j], y.rules[j]>> : j \in DOMAIN y.rules}
    BY <1>1, <2>1 DEF Routing
  <2>3. PICK j \in DOMAIN y.rules : <<Lower[k], x.rules[k]>> = <<Lower[j], y.rules[j]>>
    BY <2>2
  <2>4. Lower[j] = Lower[k]
    BY <2>3
  <2>5. j \notin DefaultKeys
    BY <1>1, <2>1, <2>4, LowerAssumption
  <2> QED BY <2>4, <2>5 DEF LowerNames, HostNames
<1> QED BY <1>1 DEF LowerNames

-----------------------------------------------------------------------------
(***************************************************************************)
(* The invariant.                                                          *)
(***************************************************************************)

LEMMA InitInv == Init => Inv
<1> SUFFICES ASSUME Init PROVE Inv
  OBVIOUS
<1>1. buf \in 0..Taken
  BY MaxBytesAssumption DEF Init, Taken
<1>2. TypeOK
  BY <1>1 DEF Init, TypeOK
<1> QED BY <1>2 DEF Init, Inv, BoundAt, TextAt, SettingsFrom, SameRouting, SyncedAt, Serving

LEMMA ExitInv ==
    ASSUME Inv, Exit, UNCHANGED <<machine, document, blocks>>, calm' \in BOOLEAN
    PROVE  Inv'
<1>1. buf' \in 0..Taken
  BY MaxBytesAssumption DEF Exit, Close, Taken
<1>2. Taken' = Taken
  BY DEF Taken
<1>3. TypeOK'
  BY <1>1, <1>2 DEF Inv, TypeOK, Exit, Close, machine
<1> QED
  BY <1>3 DEF Inv, BoundAt, TextAt, SettingsFrom, SameRouting, SyncedAt, Serving, Exit, Close

LEMMA GiveUpInv ==
    ASSUME Inv, GiveUp, pc = "fetch", UNCHANGED <<machine, document, blocks, calm>>
    PROVE  Inv'
<1>1. CASE Starting /\ Exit
  BY <1>1, ExitInv DEF Inv, TypeOK
<1>2. CASE ~(Starting /\ Exit)
  <2>1. /\ bound # {} /\ pc' = "idle" /\ opened' = NoText /\ buf' = 0 /\ lost' \in BOOLEAN
        /\ UNCHANGED <<kind, cli, document, settings, table, lastYaml, bound, blocks, synced, due, calm>>
    BY <1>2 DEF GiveUp, Starting, Close, Miss, machine, configs
  <2>2. buf' \in 0..Taken
    BY <2>1, MaxBytesAssumption DEF Taken
  <2>3. TypeOK'
    BY <2>1, <2>2 DEF Inv, TypeOK
  <2>4. BoundAt' /\ TextAt' /\ SettingsFrom' /\ SameRouting'
    BY <2>1 DEF Inv, BoundAt, TextAt, SettingsFrom, SameRouting, Serving, Merged
  <2>5. SyncedAt'
    BY <2>1 DEF Inv, SyncedAt
  <2> QED BY <2>3, <2>4, <2>5 DEF Inv
<1> QED BY <1>1, <1>2

\* A sync of the config c, at start-up or in a reload.
LEMMA ApplyHostsKeeps ==
    ASSUME Inv, NEW c \in Range(Config) \ {Err}, bound # {}, ApplyHosts(c),
           UNCHANGED <<settings, cli>>
    PROVE  /\ lost' \in BOOLEAN /\ synced' \in BOOLEAN
           /\ blocks' \in [Path -> [ip : Loopback, names : {HostNames(x) : x \in Range(Config) \ {Err}}]
                                     \cup {NoBlock}]
           /\ synced' => \/ settings.hostsPath = None /\ synced /\ UNCHANGED blocks
                         \/ /\ settings.hostsPath # None
                            /\ blocks'[Head(settings.hostsPath)].ip = settings.listen
                            /\ blocks'[Head(settings.hostsPath)].names = HostNames(c)
<1>1. /\ settings.listen \in Loopback
      /\ settings.hostsPath # None => Head(settings.hostsPath) \in Path
  BY MergedTypes DEF Inv, SettingsFrom, TypeOK
<1>2. CASE settings.hostsPath = None /\ UNCHANGED <<blocks, synced, lost>>
  BY <1>2 DEF Inv, TypeOK
<1>3. CASE /\ settings.hostsPath # None /\ synced' = FALSE /\ Miss /\ UNCHANGED blocks
  BY <1>3 DEF Inv, TypeOK, Miss
<1>4. CASE /\ settings.hostsPath # None /\ synced' = TRUE /\ UNCHANGED lost
           /\ blocks' = [blocks EXCEPT ![Head(settings.hostsPath)] = Block(c)]
  <2>1. /\ Block(c).ip = settings.listen /\ Block(c).names = HostNames(c)
        /\ Block(c) \in [ip : Loopback, names : {HostNames(x) : x \in Range(Config) \ {Err}}]
    BY <1>1 DEF Block
  <2> QED BY <1>1, <1>4, <2>1 DEF Inv, TypeOK
<1> QED BY <1>2, <1>3, <1>4 DEF ApplyHosts

LEMMA NextInv == Inv /\ [Next]_vars => Inv'
<1> SUFFICES ASSUME Inv, [Next]_vars PROVE Inv'
  OBVIOUS
<1> USE DEF Inv, machine, configs, watch
<1>0. Taken' = Taken /\ MaxBytes \in Nat /\ Taken \in Nat /\ 0 \in 0..Taken
  BY MaxBytesAssumption DEF Taken
<1>1. ASSUME NEW from \in {"down", "idle"}, Fetch(from) PROVE Inv'
  <2>1. /\ pc = from /\ pc' = "fetch" /\ opened' = document /\ buf' = 0 /\ due' = FALSE /\ lost' = FALSE
        /\ UNCHANGED <<kind, cli, document, settings, table, lastYaml, bound, blocks, synced, calm>>
    BY <1>1 DEF Fetch, Goto
  <2>2. TypeOK'
    BY <1>0, <2>1 DEF TypeOK, Text
  <2>3. TextAt'
    BY <2>1, DocumentsAssumption DEF TextAt, TypeOK, Text
  <2>4. BoundAt' /\ SettingsFrom' /\ SameRouting' /\ SyncedAt'
    BY <2>1 DEF BoundAt, SettingsFrom, SameRouting, SyncedAt, Serving, Merged
  <2> QED BY <2>2, <2>3, <2>4
<1>2. ASSUME NEW k \in 1..Taken, ReadChunk(k) PROVE Inv'
  <2>1. /\ pc = "fetch" /\ buf' = buf + k /\ buf + k <= opened.size /\ buf + k <= Taken
        /\ UNCHANGED <<kind, cli, document, pc, opened, settings, table, lastYaml, bound, blocks, synced,
                       due, lost, calm>>
    BY <1>2, MaxBytesAssumption DEF ReadChunk, Taken, TypeOK
  <2>2. buf' \in 0..Taken
    BY <1>0, <2>1 DEF TypeOK
  <2>3. TypeOK'
    BY <2>1, <2>2 DEF TypeOK
  <2>4. TextAt' /\ BoundAt' /\ SettingsFrom' /\ SameRouting' /\ SyncedAt'
    BY <2>1 DEF TextAt, BoundAt, SettingsFrom, SameRouting, SyncedAt, Serving, Merged
  <2> QED BY <2>3, <2>4
<1>3. CASE TooLarge \/ FetchFails \/ Refused
  BY <1>3, GiveUpInv DEF TooLarge, FetchFails, Refused, Complete
<1>4. CASE StartConfig
  <2>1. /\ pc = "fetch" /\ pc' = "bind" /\ bound = {} /\ opened' = NoText /\ buf' = 0
        /\ Config[opened].ok /\ settings' = MergeSettings(Config[opened], cli) /\ settings'.ok
        /\ table' = Config[opened] /\ lastYaml' = Config[opened]
        /\ UNCHANGED <<kind, cli, document, bound, blocks, synced, due, lost, calm>>
    BY <1>4 DEF StartConfig, Complete, Close, Accepted, Starting
  <2>2. opened \in Text /\ cli \in Clis
    BY <2>1 DEF TextAt, TypeOK
  <2>3. Merged(settings)'
    BY <2>1, <2>2 DEF Merged
  <2>4. /\ settings'.listen \in Loopback /\ IsOption(settings'.hostsPath, Path)
        /\ Config[opened] \in Range(Config) \ {Err}
    BY <2>1, <2>2, MergedIsRecord, ConfigIsText, PathAssumption
  <2>5. TypeOK'
    BY <1>0, <2>1, <2>4 DEF TypeOK
  <2>6. BoundAt' /\ TextAt' /\ SettingsFrom' /\ SameRouting' /\ SyncedAt'
    BY <2>1, <2>3 DEF BoundAt, TextAt, SettingsFrom, SameRouting, SyncedAt, Serving
  <2> QED BY <2>5, <2>6
<1>5. CASE Bind
  <2>1. CASE Exit
    BY <1>5, <2>1, ExitInv DEF Bind, TypeOK
  <2>2. CASE ~Exit
    <3>1. /\ pc = "bind" /\ pc' = "startHosts"
          /\ bound' = {settings.listen} \X (IF settings.http THEN {443, 80} ELSE {443})
          /\ UNCHANGED <<kind, cli, document, opened, buf, settings, table, lastYaml, blocks, synced, due, lost, calm>>
      BY <1>5, <2>2 DEF Bind
    <3>2. settings.listen \in Loopback
      BY <3>1, MergedTypes DEF SettingsFrom, TypeOK
    <3>3. <<settings.listen, 443>> \in bound' /\ bound' \subseteq Loopback \X {443, 80}
      BY <3>1, <3>2
    <3>4. TypeOK'
      BY <1>0, <3>1, <3>3 DEF TypeOK
    <3>5. BoundAt' /\ TextAt' /\ SettingsFrom' /\ SameRouting'
      BY <3>1, <3>3 DEF BoundAt, TextAt, SettingsFrom, SameRouting, Serving, Merged
    <3>6. SyncedAt'
      BY <3>1 DEF SyncedAt, BoundAt
    <3> QED BY <3>4, <3>5, <3>6
  <2> QED BY <2>1, <2>2
<1>6. CASE StartHosts
  <2>1. /\ pc = "startHosts" /\ pc' = "spawnLoop" /\ bound # {} /\ ApplyHosts(table)
        /\ UNCHANGED <<kind, cli, document, opened, buf, settings, table, lastYaml, bound, due, calm>>
    BY <1>6 DEF StartHosts, Goto, BoundAt, Serving
  <2>2. table \in Range(Config) \ {Err} /\ HostNames(table) = HostNames(lastYaml)
    BY <2>1 DEF SettingsFrom, SameRouting, TypeOK, Err
  <2>3. /\ lost' \in BOOLEAN /\ synced' \in BOOLEAN
        /\ blocks' \in [Path -> [ip : Loopback, names : {HostNames(x) : x \in Range(Config) \ {Err}}]
                                  \cup {NoBlock}]
        /\ synced' => \/ settings.hostsPath = None /\ synced /\ UNCHANGED blocks
                      \/ /\ settings.hostsPath # None
                         /\ blocks'[Head(settings.hostsPath)].ip = settings.listen
                         /\ blocks'[Head(settings.hostsPath)].names = HostNames(table)
    BY <2>1, <2>2, ApplyHostsKeeps
  <2>4. TypeOK'
    BY <1>0, <2>1, <2>3 DEF TypeOK
  <2>5. BoundAt' /\ TextAt' /\ SettingsFrom' /\ SameRouting'
    BY <2>1 DEF BoundAt, TextAt, SettingsFrom, SameRouting, Serving, Merged
  <2>6. SyncedAt'
    BY <2>1, <2>2, <2>3 DEF SyncedAt, HostNames
  <2> QED BY <2>4, <2>5, <2>6
<1>7. CASE SpawnLoop
  <2>1. /\ pc = "spawnLoop" /\ pc' = "idle"
        /\ UNCHANGED <<kind, cli, document, opened, buf, settings, table, lastYaml, bound, blocks, synced,
                       due, lost, calm>>
    BY <1>7 DEF SpawnLoop, Goto
  <2>2. TypeOK'
    BY <1>0, <2>1 DEF TypeOK
  <2> QED BY <2>1, <2>2 DEF BoundAt, TextAt, SettingsFrom, SameRouting, SyncedAt, Serving, Merged
<1>8. CASE ReloadConfig
  <2>1. /\ pc = "fetch" /\ pc' = "hosts" /\ bound # {} /\ Config[opened].ok
        /\ UNCHANGED <<kind, cli, document, opened, buf, settings, table, lastYaml, bound, blocks, synced,
                       due, lost, calm>>
    BY <1>8 DEF ReloadConfig, Complete, Starting, Accepted
  <2>2. TypeOK'
    BY <1>0, <2>1 DEF TypeOK
  <2> QED BY <2>1, <2>2 DEF BoundAt, TextAt, SettingsFrom, SameRouting, SyncedAt, Serving, Merged
<1>9. CASE ReloadHosts
  <2>1. /\ pc = "hosts" /\ pc' = "publish" /\ bound # {} /\ ApplyHosts(Config[opened])
        /\ UNCHANGED <<kind, cli, document, opened, buf, settings, table, lastYaml, bound, due, calm>>
    BY <1>9 DEF ReloadHosts, Goto, BoundAt, Serving
  <2>2. Config[opened] \in Range(Config) \ {Err}
    BY <2>1, ConfigIsText DEF TextAt
  <2>3. /\ lost' \in BOOLEAN /\ synced' \in BOOLEAN
        /\ blocks' \in [Path -> [ip : Loopback, names : {HostNames(x) : x \in Range(Config) \ {Err}}]
                                  \cup {NoBlock}]
        /\ synced' => \/ settings.hostsPath = None /\ synced /\ UNCHANGED blocks
                      \/ /\ settings.hostsPath # None
                         /\ blocks'[Head(settings.hostsPath)].ip = settings.listen
                         /\ blocks'[Head(settings.hostsPath)].names = HostNames(Config[opened])
    BY <2>1, <2>2, ApplyHostsKeeps
  <2>4. TypeOK'
    BY <1>0, <2>1, <2>3 DEF TypeOK
  <2>5. BoundAt' /\ TextAt' /\ SettingsFrom' /\ SameRouting'
    BY <2>1 DEF BoundAt, TextAt, SettingsFrom, SameRouting, Serving, Merged
  <2>6. SyncedAt'
    BY <2>1, <2>3 DEF SyncedAt, HostNames
  <2> QED BY <2>4, <2>5, <2>6
<1>10. CASE Publish
  <2>1. /\ pc = "publish" /\ pc' = "idle" /\ opened' = NoText /\ buf' = 0 /\ bound # {}
        /\ table' = IF Routing(table) = Routing(Config[opened]) THEN table ELSE Config[opened]
        /\ lastYaml' = Config[opened] /\ Config[opened].ok /\ opened \in Text
        /\ UNCHANGED <<kind, cli, document, settings, bound, blocks, synced, due, lost, calm>>
    BY <1>10 DEF Publish, Goto, Close, BoundAt, TextAt, Serving
  <2>2. Config[opened] \in Range(Config) \ {Err}
    BY <2>1, ConfigIsText
  <2>3. TypeOK'
    BY <1>0, <2>1, <2>2 DEF TypeOK
  <2>4. Routing(table') = Routing(lastYaml') /\ table'.ok
    BY <2>1 DEF SettingsFrom
  <2>5. BoundAt' /\ TextAt' /\ SettingsFrom' /\ SameRouting'
    BY <2>1, <2>4 DEF BoundAt, TextAt, SettingsFrom, SameRouting, Serving, Merged, Routing
  <2>6. SyncedAt'
    BY <2>1 DEF SyncedAt, HostNames
  <2> QED BY <2>3, <2>5, <2>6
<1>11. CASE Die
  BY <1>11, ExitInv DEF Die, TypeOK
<1>12. ASSUME NEW d \in Documents, Edit(d) PROVE Inv'
  <2>1. /\ document' = d /\ due' \in BOOLEAN /\ lost' \in BOOLEAN /\ Overwrite(d)
        /\ UNCHANGED <<kind, cli, pc, buf, settings, table, lastYaml, bound, blocks, synced, calm>>
    BY <1>12 DEF Edit, Miss, TypeOK
  <2>2. opened' = opened \/ (pc = "fetch" /\ opened' \in Text /\ buf <= opened'.size)
    <3>1. CASE UNCHANGED opened
      BY <3>1
    <3>2. CASE pc = "fetch" /\ buf = 0 /\ opened' = d
      BY <3>2, DocumentsAssumption DEF Text
    <3>3. CASE /\ pc = "fetch"
               /\ opened' \in {t \in Text : t.size = IF buf < d.size THEN d.size ELSE buf}
      <4>1. d.size \in Nat /\ buf \in Nat
        BY <1>0, DocumentsAssumption DEF Text, TypeOK
      <4>2. opened' \in Text /\ opened'.size = IF buf < d.size THEN d.size ELSE buf
        BY <3>3
      <4> QED BY <3>3, <4>1, <4>2
    <3> QED BY <2>1, <3>1, <3>2, <3>3 DEF Overwrite
  <2>3. opened' \in Text \cup {NoText}
    BY <2>2 DEF TypeOK
  <2>4. TypeOK'
    BY <1>0, <2>1, <2>3 DEF TypeOK
  <2>5. kind = "watched" => due' \/ lost'
    BY <1>12 DEF Edit, Miss
  <2>6. pc \in {"hosts", "publish"} => opened' = opened
    BY <2>2
  <2>7. TextAt'
    BY <2>1, <2>2, <2>5, <2>6 DEF TextAt
  <2>8. BoundAt' /\ SettingsFrom' /\ SameRouting'
    BY <2>1 DEF BoundAt, SettingsFrom, SameRouting, Serving, Merged
  <2>9. SyncedAt'
    BY <2>1, <2>6 DEF SyncedAt
  <2> QED BY <2>4, <2>7, <2>8, <2>9
<1>13. CASE CalmDown
  BY <1>0, <1>13 DEF CalmDown, TypeOK, BoundAt, TextAt, SettingsFrom, SameRouting, SyncedAt, Serving, Merged
<1>14. CASE UNCHANGED vars
  BY <1>0, <1>14 DEF vars, TypeOK, BoundAt, TextAt, SettingsFrom, SameRouting, SyncedAt, Serving, Merged
<1> QED
  BY <1>1, <1>2, <1>3, <1>4, <1>5, <1>6, <1>7, <1>8, <1>9, <1>10, <1>11, <1>12, <1>13, <1>14
  DEF Next, Start, Reload, Read, Install

LEMMA Invariance == Spec => []Inv
BY InitInv, NextInv, PTL DEF Spec

-----------------------------------------------------------------------------
(***************************************************************************)
(* The properties.                                                         *)
(***************************************************************************)

\* The state has its types: addresses that are bound or written are loopback
\* addresses, and what is published or kept as last YAML is a whole config.
THEOREM TypeCorrect == Spec => []TypeOK
<1>1. Inv => TypeOK
  BY DEF Inv
<1> QED BY <1>1, Invariance, PTL

\* Whatever the reloaded configs say of listen, hosts and http, and however
\* many lives came before, the block of this life has its own address and the
\* names of its table.
THEOREM OwnBlock == Spec => []BlockIsOurs
<1>1. Inv => BlockIsOurs
  <2> SUFFICES ASSUME Inv, synced, pc \in {"spawnLoop", "idle", "fetch", "hosts"}
               PROVE  /\ settings.hostsPath # None
                      /\ blocks[Head(settings.hostsPath)].ip = settings.listen
                      /\ blocks[Head(settings.hostsPath)].names = HostNames(lastYaml)
                      /\ <<settings.listen, 443>> \in bound
                      /\ LowerNames(lastYaml) = LowerNames(table)
    BY DEF BlockIsOurs
  <2>1. LowerNames(lastYaml) = LowerNames(table)
    <3>1. table \in Range(Config) \ {Err} /\ lastYaml \in Range(Config) \ {Err}
      BY DEF Inv, SettingsFrom, SyncedAt, TypeOK, Err
    <3> QED BY <3>1, SameHostNames DEF Inv, SameRouting, SyncedAt
  <2> QED BY <2>1 DEF Inv, SyncedAt, BoundAt
<1> QED BY <1>1, Invariance, PTL

\* The blocks change only while their new address is listened on.
THEOREM BlockIsBacked == Spec => BlockBacked
<1> DEFINE A == \A p \in Path : blocks'[p] # blocks[p] => <<blocks'[p].ip, 443>> \in bound'
<1>1. Inv /\ [Next]_vars => [A]_vars
  <2> SUFFICES ASSUME Inv, Next PROVE A
    BY DEF vars
  <2>1. ASSUME NEW c, ApplyHosts(c), pc \in Serving, bound' = bound PROVE A
    <3>1. CASE UNCHANGED blocks
      BY <3>1
    <3>2. CASE blocks' = [blocks EXCEPT ![Head(settings.hostsPath)] = Block(c)]
      BY <2>1, <3>2 DEF Inv, TypeOK, BoundAt, Block
    <3> QED BY <2>1, <3>1, <3>2 DEF ApplyHosts
  <2>2. CASE StartHosts
    BY <2>1, <2>2 DEF StartHosts, Goto, Serving
  <2>3. CASE ReloadHosts
    BY <2>1, <2>3 DEF ReloadHosts, Goto, Serving
  <2>4. CASE ~StartHosts /\ ~ReloadHosts
    <3>1. UNCHANGED blocks
      BY <2>4 DEF Next, Start, Reload, Fetch, Read, Install, ReadChunk, TooLarge, FetchFails, Refused,
                  StartConfig, Bind, SpawnLoop, ReloadConfig, Publish, Die, CalmDown, Edit
    <3> QED BY <3>1
  <2> QED BY <2>2, <2>3, <2>4
<1> QED BY <1>1, Invariance, PTL DEF Spec, BlockBacked

\* For any size limit, texts and edits in the middle of a read: a text is
\* installed as it was read to its end, none is refused for a size it may have,
\* and if it is not what a watched file holds, an event waits, or was lost.
THEOREM TextIsWhole == Spec => WholeText
<1> DEFINE A == /\ buf' <= MaxBytes + 1
                /\ (pc = "fetch" /\ pc' \in {"bind", "hosts"}) =>
                       /\ buf = opened.size /\ opened.size <= MaxBytes
                       /\ opened = document \/ kind # "watched" \/ due \/ lost
                /\ (pc = "fetch" /\ pc' \in {"down", "idle"} /\ calm /\ ~Hairpinned /\ Accepted(Config[opened])) =>
                       opened.size > MaxBytes
<1>1. Inv /\ Inv' /\ [Next]_vars => [A]_vars
  <2> SUFFICES ASSUME Inv, Inv', Next PROVE A
    BY DEF vars
  <2>1. buf' <= MaxBytes + 1
    BY MaxBytesAssumption DEF Inv, TypeOK, Taken
  <2>2. ASSUME Complete PROVE buf = opened.size /\ opened.size <= MaxBytes
    BY <2>2, MaxBytesAssumption, DocumentsAssumption DEF Complete, AtEnd, Taken, Inv, TextAt, TypeOK
  <2>3. ASSUME pc = "fetch", pc' \in {"bind", "hosts"} PROVE Complete
    BY <2>3 DEF Next, Start, Reload, Fetch, Goto, Read, Install, ReadChunk, TooLarge, FetchFails, Refused,
                GiveUp, Exit, StartConfig, Bind, StartHosts, SpawnLoop, ReloadConfig, ReloadHosts, Publish,
                Die, CalmDown, Edit
  <2>4. pc = "fetch" => opened = document \/ kind # "watched" \/ due \/ lost
    BY DEF Inv, TextAt
  <2>5. ASSUME pc = "fetch", pc' \in {"down", "idle"}, calm, ~Hairpinned, Accepted(Config[opened])
        PROVE  opened.size > MaxBytes
    <3>1. TooLarge
      BY <2>5 DEF Next, Start, Reload, Fetch, Goto, Read, Install, ReadChunk, FetchFails, Refused,
                  StartConfig, Bind, StartHosts, SpawnLoop, ReloadConfig, ReloadHosts, Publish,
                  Die, CalmDown, Edit
    <3>2. opened.size \in Nat /\ buf \in Nat /\ buf <= opened.size /\ MaxBytes \in Nat
      BY <2>5, DocumentsAssumption, MaxBytesAssumption DEF Inv, TextAt, TypeOK, Taken
    <3> QED BY <3>1, <3>2 DEF TooLarge
  <2> QED BY <2>1, <2>2, <2>3, <2>4, <2>5
<1> QED BY <1>1, Invariance, PTL DEF Spec, WholeText

\* The first of an Option on the command line, one in the YAML and a default.
First(o, p, d) == Head(o \o p \o <<d>>)

Some(o) == \E v : o = <<v>>

LEMMA OptionIs == ASSUME NEW o, NEW S, IsOption(o, S) PROVE o = None \/ Some(o)
<1> SUFFICES ASSUME o # None PROVE \E v : o = <<v>>
  BY DEF Some
<1>1. o \in Seq(S) /\ Len(o) <= 1
  BY DEF IsOption
<1>2. Len(o) \in Nat
  BY <1>1
<1>3. Len(o) = 1
  <2>1. Len(o) # 0
    BY <1>1, EmptySeq DEF None
  <2>2. Len(o) <= 1
    BY <1>1
  <2> QED BY ONLY <1>2, <2>1, <2>2
<1> DEFINE x == o[1]
<1>4. x \in S
  <2>1. 1 \in 1..Len(o)
    BY <1>3
  <2> QED BY <1>1, <2>1, ElementOfSeq
<1> HIDE DEF x
<1>5. <<x>> \in Seq(S) /\ Len(<<x>>) = 1 /\ <<x>>[1] = x
  BY <1>4
<1>6. ASSUME NEW i \in 1..Len(o) PROVE o[i] = <<x>>[i]
  <2>1. i = 1
    BY <1>3
  <2> QED BY <1>5, <2>1 DEF x
<1>7. o = <<x>>
  BY <1>1, <1>3, <1>5, <1>6, SeqEqual
<1> QED BY <1>7, Zenon

LEMMA FirstChoice ==
    ASSUME NEW o, NEW p, NEW d, o = None \/ Some(o), p = None \/ Some(p)
    PROVE  /\ o # None => First(o, p, d) = Head(o)
           /\ (o = None /\ p # None) => First(o, p, d) = Head(p)
           /\ (o = None /\ p = None) => First(o, p, d) = d
<1> USE DEF First, Some
<1>1. /\ \A x, v : Head(<<x>> \o <<v>> \o <<d>>) = x
      /\ \A x : Head(<<x>> \o <<>> \o <<d>>) = x
      /\ \A v : Head(<<>> \o <<v>> \o <<d>>) = v
      /\ Head(<<>> \o <<>> \o <<d>>) = d
      /\ \A x : Head(<<x>>) = x /\ <<x>> # None
  BY DEF None
<1>2. CASE o = None
  <2>1. CASE p = None
    BY <1>1, <1>2, <2>1 DEF None
  <2>2. CASE p # None
    <3>1. PICK v : p = <<v>>
      BY <2>2
    <3>2. Head(o \o p \o <<d>>) = v /\ Head(p) = v
      BY <1>1, <1>2, <3>1, Zenon DEF None
    <3> QED BY <1>2, <2>2, <3>1, <3>2, Zenon
  <2> QED BY <2>1, <2>2
<1>3. CASE o # None
  <2>1. PICK x : o = <<x>>
    BY <1>3
  <2>2. Head(o \o p \o <<d>>) = x /\ Head(o) = x
    <3>1. CASE p = None
      BY <1>1, <2>1, <3>1, Zenon DEF None
    <3>2. CASE p # None
      BY <1>1, <2>1, <3>2, Zenon
    <3> QED BY <3>1, <3>2
  <2> QED BY <1>3, <2>2, Zenon
<1> QED BY <1>2, <1>3

\* A config in force that the next start refuses has a listen or a refresh of
\* its own that the reload did not look at: the command line and the defaults
\* are never the reason.
THEOREM RestartRefused == Spec => []RestartRefusedOnlyFor
<1>1. Inv => RestartRefusedOnlyFor
  <2> SUFFICES ASSUME Inv, bound # {}, ~MergeSettings(lastYaml, cli).ok
               PROVE  \/ cli.listen = None /\ lastYaml.listen # None /\ Head(lastYaml.listen) \notin Loopback
                      \/ cli.refresh = None /\ lastYaml.refresh = <<0>>
    BY DEF RestartRefusedOnlyFor, Starting
  <2>1. PICK d \in Text : Config[d].ok /\ settings.ok /\ settings = MergeSettings(Config[d], cli)
    BY DEF Inv, SettingsFrom, Merged
  <2>2. Listen(Config[d], cli) \in Loopback /\ Refresh(Config[d], cli) # 0
    BY <2>1, MergedIsRecord
  <2>3. lastYaml.ok /\ \E e \in Text : lastYaml = Config[e]
    BY DEF Inv, SettingsFrom, TypeOK, Range, Config, Err
  <2>4. PICK e \in Text : lastYaml = Config[e] /\ Config[e].ok
    BY <2>3
  <2>5. ASSUME NEW x \in Text, Config[x].ok
        PROVE  /\ Config[x].listen = None \/ Some(Config[x].listen)
               /\ Config[x].refresh = None \/ Some(Config[x].refresh)
    <3>1. /\ FileConfig(x.yaml).listen = Optional(x.yaml, "listen")
          /\ FileConfig(x.yaml).refresh = Optional(x.yaml, "refresh")
      BY DEF FileConfig
    <3>2. \A f : Optional(x.yaml, f) = None \/ Some(Optional(x.yaml, f))
      BY Zenon DEF Optional, Some
    <3>3. Config[x] = FileConfig(x.yaml)
      BY <2>5, ConfigIsText
    <3> QED BY <3>1, <3>2, <3>3, Zenon
  <2>6. (cli.listen = None \/ Some(cli.listen)) /\ (cli.refresh = None \/ Some(cli.refresh))
    BY ClisAssumption, OptionIs DEF Inv, TypeOK
  <2>7. Listen(lastYaml, cli) \notin Loopback \/ Refresh(lastYaml, cli) = 0
    BY DEF MergeSettings
  <2>8. CASE Listen(lastYaml, cli) \notin Loopback
    <3>1. \A y : Listen(y, cli) = First(cli.listen, y.listen, DefaultListen)
      BY Zenon DEF Listen, First
    <3>2. /\ cli.listen # None => First(cli.listen, Config[d].listen, DefaultListen) = Head(cli.listen)
          /\ cli.listen # None => First(cli.listen, Config[e].listen, DefaultListen) = Head(cli.listen)
          /\ (cli.listen = None /\ Config[e].listen # None) =>
                First(cli.listen, Config[e].listen, DefaultListen) = Head(Config[e].listen)
          /\ (cli.listen = None /\ Config[e].listen = None) =>
                First(cli.listen, Config[e].listen, DefaultListen) = DefaultListen
      BY <2>1, <2>4, <2>5, <2>6, FirstChoice
    <3> QED BY <2>2, <2>4, <2>8, <3>1, <3>2, AddrAssumption
  <2>9. CASE Refresh(lastYaml, cli) = 0
    <3>1. \A y : Refresh(y, cli) = First(cli.refresh, y.refresh, DefaultRefresh)
      BY Zenon DEF Refresh, First
    <3>2. /\ cli.refresh # None => First(cli.refresh, Config[d].refresh, DefaultRefresh) = Head(cli.refresh)
          /\ cli.refresh # None => First(cli.refresh, Config[e].refresh, DefaultRefresh) = Head(cli.refresh)
          /\ (cli.refresh = None /\ Config[e].refresh # None) =>
                First(cli.refresh, Config[e].refresh, DefaultRefresh) = Head(Config[e].refresh)
          /\ (cli.refresh = None /\ Config[e].refresh = None) =>
                First(cli.refresh, Config[e].refresh, DefaultRefresh) = DefaultRefresh
      BY <2>1, <2>4, <2>5, <2>6, FirstChoice
    <3>3. Config[e].refresh # None => Config[e].refresh = <<Head(Config[e].refresh)>>
      BY <2>4, <2>5 DEF Some
    <3> QED BY <2>2, <2>4, <2>9, <3>1, <3>2, <3>3, RefreshAssumption
  <2> QED BY <2>7, <2>8, <2>9
<1> QED BY <1>1, Invariance, PTL
=============================================================================
