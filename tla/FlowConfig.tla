------------------------------ MODULE FlowConfig ------------------------------
(***************************************************************************)
(* Loading UAFlow.conf: flow_config_parser.c from the file to the routing  *)
(* table the lcores search, and to the first use of the index lists.  load *)
(* turns the items and keys of the document into hash lists and the RX and *)
(* TX index lists, and binds each item to a port; build turns the keys     *)
(* into patterns of the tries.                                             *)
(*                                                                         *)
(* Files are those of FlowConfigXml.  Item, UAKey and DDOS elements are    *)
(* `ok' when they have all the attributes load insists on; a file also     *)
(* says whether rte_zmalloc may return NULL while it is loaded (`tight').  *)
(* All lcores' tries get the same patterns, so there is one.               *)
(***************************************************************************)
EXTENDS FlowConfigXml

CONSTANTS
  Files,        \* the files to load
  Empty,        \* the key text of length zero
  Long,         \* the key texts longer than AC_PATTRN_MAX_LENGTH
  Slots,        \* FLOW_CONFIG_SLOT_SIZE
  IdxSlots,     \* RTE_MAX_ETHPORTS, the length of each index list
  Ports,        \* rte_eth_dev_count(): the ports are 0..Ports-1
  RuleNames,    \* RuleNames[p]: the names the udev rules give port p's MAC
  Extends,      \* Extends[d]: the names that begin with the name d
  DefaultNumber, DefaultMs     \* the defaults of the scan settings

Port == 0..(Ports - 1)

(* The ports' names, the lists' lengths.                                   *)
ASSUME ConfigAssumption ==
  /\ Slots \in Nat \ {0} /\ IdxSlots \in Nat \ {0} /\ Ports \in Nat \ {0}
  /\ \A d \in DOMAIN Extends : d \in Extends[d]

(* An element is not NULL, and if it is an Item or a UAKey that is `ok' it *)
(* has what atoi and the comparison with "rx" make of its attributes.      *)
Complete(e) ==
  /\ e # NULL
  /\ e.tag = "Item" /\ e.ok =>
       e.id \in Int /\ e.type \in {"rx", "tx"} /\ e.name \in DOMAIN Extends
  /\ e.tag = "UAKey" /\ e.ok => e.id \in Int

ASSUME FilesAssumption ==
  /\ NULL \notin Int
  /\ \A f \in Files :
       /\ f.root # NULL /\ f.root.children \in Seq(Range(f.root.children))
       /\ \A s \in Range(f.root.children) :
            /\ s.children \in Seq(Range(s.children))
            /\ \A e \in Range(s.children) : Complete(e)

VARIABLES
  file,      \* the file
  tree,      \* the root of the document loaded, or NULL
  pc,        \* the loop load or build is in
  pos,       \* load: the place of node; build: that of key1 in its slot
  slot,      \* build's variable i
  item,      \* load's variable item: its itemid, or NULL
  items,     \* flow_config_item_head: items[slot], in order
  rxidx, txidx,   \* flow_config_rx_idx_list, flow_config_tx_idx_list
  keys,      \* flow_config_key_head: keys[slot], in order
  scan,      \* the scan number and the scan time
  trie       \* the patterns ac_trie_add accepted, in order

lists == <<items, rxidx, txidx, keys>>
vars == <<file, tree, pc, pos, slot, item, lists, scan, trie>>

Slot(id) == id % Slots

Init ==
  /\ file \in Files
  /\ tree = NULL
  /\ pc = "load" /\ pos = 0 /\ slot = 0
  /\ item = NULL
  /\ items = [s \in 0..(Slots - 1) |-> << >>]
  /\ keys = items
  /\ rxidx = << >> /\ txidx = << >>
  /\ scan = [number |-> 0, ms |-> 0]
  /\ trie = << >>

(* rte_eth_dev_attach_self: the first port one of whose names in the rules *)
(* begins with the device's name; port 0 if there is none.                 *)
AttachSelf(name) ==
  LET fits == {p \in Port : RuleNames[p] \cap Extends[name] # {}}
  IN IF fits = {} THEN 0 ELSE Min(fits)

-------------------------------------------------------------------------------
(* load                                                                    *)

(* Where each loop looks: the children of a section, and what it looks for. *)
Loop == [items |-> [section |-> "Capmode", tag |-> "Item"],
         keys  |-> [section |-> "Flow",    tag |-> "UAKey"],
         scan  |-> [section |-> "Scan",    tag |-> "DDOS"]]

Elements(l) == Section(tree, "UAFlow", Loop[l].section)

First(root, l) == Search3(root, "UAFlow", Loop[l].section, Loop[l].tag)

(* A file that cannot be loaded ends load, whose result main does not ask  *)
(* for: build goes on with empty lists.                                    *)
Load ==
  /\ pc = "load"
  /\ tree' = ConfigLoad(file)
  /\ IF tree' = NULL THEN pc' = "build" /\ pos' = 1
     ELSE pc' = "items" /\ pos' = First(tree', "items")
  /\ UNCHANGED <<file, slot, item, lists, scan, trie>>

(* The loop l is at a node, and goes on to the next one.                   *)
At(l) == pc = l /\ pos # 0

Here == Elements(pc)[pos]

NextNode ==
  /\ pos' = SearchNext(Elements(pc), pos, Loop[pc].tag)
  /\ UNCHANGED <<file, tree, pc, slot>>

(* An element without its attributes is skipped, before item is assigned.  *)
SkipItem ==
  /\ At("items") /\ ~Here.ok
  /\ NextNode
  /\ UNCHANGED <<item, lists, scan, trie>>

(* No memory for the item: item is NULL when the loop goes on.             *)
ItemNoMemory ==
  /\ At("items") /\ Here.ok /\ file.tight
  /\ item' = NULL
  /\ NextNode
  /\ UNCHANGED <<lists, scan, trie>>

(* Mutant of AddItem: the list is that of the id's first item.             *)
AddItemByFirst ==
  LET i   == Here
      idx == [itemid |-> i.id, idx |-> AttachSelf(i.name), to |-> TRUE]
      rx  == i.type = "rx" \/ \E x \in Range(rxidx) : x.itemid = i.id
  IN /\ At("items") /\ i.ok
     /\ Len(IF rx THEN rxidx ELSE txidx) < IdxSlots
     /\ item' = i.id
     /\ items' = [items EXCEPT ![Slot(i.id)] = Append(@, i)]
     /\ IF rx
        THEN rxidx' = Append(rxidx, idx) /\ UNCHANGED txidx
        ELSE txidx' = Append(txidx, idx) /\ UNCHANGED rxidx
     /\ NextNode
     /\ UNCHANGED <<keys, scan, trie>>

(* The item goes to the end of its slot, and a new entry of the index list *)
(* of its type is bound to a port: it is the first entry with the item's   *)
(* id that is not bound yet, as every earlier one was bound when it came.  *)
AddItem ==
  LET i   == Here
      idx == [itemid |-> i.id, idx |-> AttachSelf(i.name), to |-> TRUE]
  IN /\ At("items") /\ i.ok
     /\ Len(IF i.type = "rx" THEN rxidx ELSE txidx) < IdxSlots
     /\ item' = i.id
     /\ items' = [items EXCEPT ![Slot(i.id)] = Append(@, i)]
     /\ IF i.type = "rx"
        THEN rxidx' = Append(rxidx, idx) /\ UNCHANGED txidx
        ELSE txidx' = Append(txidx, idx) /\ UNCHANGED rxidx
     /\ NextNode
     /\ UNCHANGED <<keys, scan, trie>>

(* Mutant of IdxNoMemory: the item stays, without an index entry.          *)
IdxNoMemorySkip ==
  /\ At("items") /\ Here.ok /\ file.tight
  /\ item' = Here.id
  /\ items' = [items EXCEPT ![Slot(Here.id)] = Append(@, Here)]
  /\ NextNode
  /\ UNCHANGED <<rxidx, txidx, keys, scan, trie>>

(* No memory for the index entry: the NULL pointer is cleared.             *)
IdxNoMemory ==
  /\ At("items") /\ Here.ok /\ file.tight
  /\ pc' = "crash"
  /\ UNCHANGED <<file, tree, pos, slot, item, lists, scan, trie>>

(* The list is full and not asked: the pointer is written behind it, and   *)
(* nothing is said of what follows.                                        *)
IdxOverrun ==
  /\ At("items") /\ Here.ok
  /\ Len(IF Here.type = "rx" THEN rxidx ELSE txidx) >= IdxSlots
  /\ pc' = "undefined"
  /\ UNCHANGED <<file, tree, pos, slot, item, lists, scan, trie>>

ItemsDone ==
  /\ pc = "items" /\ pos = 0
  /\ pc' = "keys" /\ pos' = First(tree, "keys")
  /\ UNCHANGED <<file, tree, slot, item, lists, scan, trie>>

(* An element without its attributes, or no memory for the key.            *)
SkipKey ==
  /\ At("keys")
  /\ ~Here.ok \/ file.tight
  /\ NextNode
  /\ UNCHANGED <<item, lists, scan, trie>>

(* The slot is that of the last item, not that of the key: a NULL item     *)
(* ends the program, and otherwise all keys are in one slot.               *)
AddKey ==
  /\ At("keys") /\ Here.ok
  /\ IF item = NULL
     THEN pc' = "crash" /\ UNCHANGED <<file, tree, pos, slot, keys>>
     ELSE /\ keys' = [keys EXCEPT ![Slot(item)] = Append(@, Here)]
          /\ NextNode
  /\ UNCHANGED <<item, items, rxidx, txidx, scan, trie>>

(* Only the first DDOS element counts, and only if it has both attributes. *)
KeysDone ==
  LET at == First(tree, "scan")
      e  == Elements("scan")[at]
  IN /\ pc = "keys" /\ pos = 0
     /\ pc' = "build" /\ pos' = 1
     /\ scan' = IF at = 0 THEN scan
                ELSE IF e.ok THEN [number |-> e.number, ms |-> e.ms]
                ELSE [number |-> DefaultNumber, ms |-> DefaultMs]
     /\ UNCHANGED <<file, tree, slot, item, lists, trie>>

-------------------------------------------------------------------------------
(* build                                                                   *)

(* Mutant of FindItem: the first item of the slot, whatever its id.        *)
FindItemAny(k) ==
  LET found == items[Slot(k.id)] IN IF found = << >> THEN NULL ELSE found[1]

(* find_item: the first item of the key's slot that has the key's id.      *)
FindItem(k) ==
  LET inslot == items[Slot(k.id)]
      hits   == {i \in DOMAIN inslot : inslot[i].id = k.id}
  IN IF hits = {} THEN NULL ELSE inslot[Min(hits)]

(* The port of the first TX index entry that has the key's id and is       *)
(* bound; port 0 if there is none.                                         *)
FindPort(k) ==
  LET hits == {i \in DOMAIN txidx : txidx[i].itemid = k.id /\ txidx[i].to}
  IN IF hits = {} THEN 0 ELSE txidx[Min(hits)].idx

(* Mutant of TrieAdd: a text of any length is taken.                       *)
TrieAddLong(k) ==
  IF \E i \in DOMAIN trie : trie[i].text = k.text THEN trie
  ELSE Append(trie, [text |-> k.text, itemid |-> k.id, idx |-> FindPort(k)])

(* ac_trie_add refuses a text that is too long and a text that it has;     *)
(* build does not ask for its result.                                      *)
TrieAdd(k) ==
  IF k.text \in Long \/ \E i \in DOMAIN trie : trie[i].text = k.text THEN trie
  ELSE Append(trie, [text |-> k.text, itemid |-> k.id, idx |-> FindPort(k)])

(* A key of no length, of no item or of an RX item yields no pattern.      *)
BuildKey ==
  LET k == keys[slot][pos] IN
  /\ pc = "build" /\ slot < Slots /\ pos <= Len(keys[slot])
  /\ trie' = IF k.text = Empty \/ FindItem(k) = NULL THEN trie
             ELSE IF FindItem(k).type = "rx" THEN trie
             ELSE TrieAdd(k)
  /\ pos' = pos + 1
  /\ UNCHANGED <<file, tree, pc, slot, item, lists, scan>>

NextSlot ==
  /\ pc = "build" /\ slot < Slots /\ pos > Len(keys[slot])
  /\ slot' = slot + 1 /\ pos' = 1
  /\ UNCHANGED <<file, tree, pc, item, lists, scan, trie>>

(* ac_trie_finalize: the threads are started.                              *)
KeysBuilt ==
  /\ pc = "build" /\ slot = Slots
  /\ pc' = "start"
  /\ UNCHANGED <<file, tree, pos, slot, item, lists, scan, trie>>

(* The lcores read prxidx[0]->idx and the defsend thread ptxidx[0]->idx,   *)
(* whatever the length of the lists.                                       *)
FirstUse ==
  /\ pc = "start"
  /\ pc' = IF rxidx = << >> \/ txidx = << >> THEN "crash" ELSE "run"
  /\ UNCHANGED <<file, tree, pos, slot, item, lists, scan, trie>>

Next ==
  \/ Load
  \/ SkipItem \/ ItemNoMemory \/ AddItem \/ IdxNoMemory \/ IdxOverrun \/ ItemsDone
  \/ SkipKey \/ AddKey \/ KeysDone
  \/ BuildKey \/ NextSlot \/ KeysBuilt \/ FirstUse

Spec == Init /\ [][Next]_vars

-------------------------------------------------------------------------------
(* What a file asks for, said without lists and loops.                     *)

Readable == file.exists /\ file.reads["UTF-8"] = "root" /\ file.root.tag = "UAFlow"

(* What the first section of a name contains.                              *)
Contents(name) ==
  LET parts == {i \in DOMAIN file.root.children : file.root.children[i].tag = name}
  IN IF ~Readable \/ parts = {} THEN << >> ELSE file.root.children[Min(parts)].children

Capmode == Contents("Capmode")
Flow    == Contents("Flow")

(* The places of the complete elements, in the file's order.               *)
ItemPlaces == {i \in DOMAIN Capmode : Capmode[i].tag = "Item" /\ Capmode[i].ok}
KeyPlaces  == {k \in DOMAIN Flow : Flow[k].tag = "UAKey" /\ Flow[k].ok}

OfType(t)    == {i \in ItemPlaces : Capmode[i].type = t}
PlacesOf(id) == {i \in ItemPlaces : Capmode[i].id = id}

(* A place's number among those of S.                                      *)
Rank(S, i) == Cardinality({j \in S : j <= i})

(* The item an id stands for: the first that has it.                       *)
ItemOf(id) == Capmode[Min(PlacesOf(id))]

(* A key that can be routed: it has a text, which the matcher can hold, and *)
(* its id stands for a TX item.                                            *)
Routed(k) ==
  /\ Flow[k].text \notin Long \cup {Empty}
  /\ PlacesOf(Flow[k].id) # {} /\ ItemOf(Flow[k].id).type = "tx"

WantedKeys ==
  {k \in KeyPlaces :
     /\ Routed(k)
     /\ \A j \in KeyPlaces : j < k /\ Routed(j) => Flow[j].text # Flow[k].text}

Wanted == {<<Flow[k].text, AttachSelf(ItemOf(Flow[k].id).name)>> : k \in WantedKeys}

(* What may be in the table though elements are lost: a key's text, with   *)
(* the port of a TX item that has the key's id.                            *)
Asked ==
  UNION {{<<Flow[k].text, AttachSelf(Capmode[i].name)>> :
            i \in PlacesOf(Flow[k].id) \cap OfType("tx")} : k \in KeyPlaces}

-------------------------------------------------------------------------------
(* Properties.                                                             *)

(* The routing table is the file's: each text the matcher can hold goes to *)
(* the port of the TX item its key names, the first key wins, and an item  *)
(* that comes first hides a later one with its id.  When memory is short   *)
(* texts may be missing, but those there are go to the port of a TX item   *)
(* with the key's id, and never to port 0 for want of an index entry.      *)
(* When it is not short and no index list is too short for the items, the  *)
(* program comes to run with every file that libxml reads as UTF-8 and     *)
(* that has an RX and a TX item, although keys are filed by the variable   *)
(* the last item left behind.                                              *)
TableRight ==
  /\ LET table == {<<trie[i].text, trie[i].idx>> : i \in DOMAIN trie} IN
     /\ pc = "run" /\ ~file.tight => table = Wanted
     /\ table \subseteq Asked
     /\ \A i, j \in DOMAIN trie : trie[i].text = trie[j].text => i = j
  /\ ~file.tight /\ (\A t \in {"rx", "tx"} : Cardinality(OfType(t)) \in 1..IdxSlots)
       => pc \notin {"crash", "undefined"}

(* A port that may stand for a name: the one whose rule has the name, as   *)
(* long as no other port has a name that this one is a prefix of.          *)
MayStandFor(port, name) ==
  \A p \in Port :
    name \in RuleNames[p] /\ (\A q \in Port \ {p} : RuleNames[q] \cap Extends[name] = {})
      => port = p

(* The index lists are the items of each type in the file's order, each    *)
(* bound to the port that the rules give its name, also when two items     *)
(* share an id: the default port is that of the first TX item.  When       *)
(* memory is short items may be missing, but every entry is that of one.   *)
IdxLists ==
  LET Fits(entry, i) ==
        entry.itemid = Capmode[i].id /\ MayStandFor(entry.idx, Capmode[i].name)
  IN \A l \in {<<rxidx, OfType("rx")>>, <<txidx, OfType("tx")>>} :
       /\ \A j \in DOMAIN l[1] : \E i \in l[2] : Fits(l[1][j], i)
       /\ ~file.tight /\ pc \in {"keys", "build", "start", "run"} =>
            /\ Len(l[1]) = Cardinality(l[2])
            /\ \A i \in l[2] : Fits(l[1][Rank(l[2], i)], i)
===============================================================================
