------------------------------ MODULE Library ------------------------------
(***************************************************************************)
(* The parts of LightUtils that one thread uses at a time and that keep no *)
(* state together: the caches, the containers, the pointers, the network   *)
(* nodes and the argument parser.  A behaviour is one of a single part,    *)
(* which part names; the others stay as they were constructed.             *)
(***************************************************************************)
EXTENDS Caches

CONSTANTS WordModulus, MaxRequest, MaxSlots,             \* RingBuffer
          Clients, Servers, Hosts, Packets, Addresses,   \* Networking
          TreeValues, KeyBits, PointerBits, MaxEntries,  \* BTree
          bits_per_bucket, Slack, MaxBits, Unwritten,    \* BitSet
          NumChunks,                                     \* ChunkAllocator
          BlockSize, mMaxAllocSize, Spots,               \* AllocatorWrappers
          Roots, Objects, Null,                          \* UniquePointer
          Functions, Small, Large, Blocks, None,         \* Callable
          Names, Settings, Words, MaxArgs, MaxWords      \* ArgParser

ASSUME SlotsFitTheWord ==
    /\ {WordModulus, MaxRequest, MaxSlots} \subseteq Nat
    /\ MaxRequest < MaxSlots /\ MaxSlots <= WordModulus
ASSUME MemoryHasRoom ==
    NumChunks \in Nat \ {0} /\ BlockSize \in Nat \ {0} /\ mMaxAllocSize \in Nat
ASSUME PointersHaveBits == KeyBits \in Nat /\ PointerBits \in Nat \ {0}
ASSUME BucketsHaveBits ==
    /\ bits_per_bucket \in Nat \ {0} /\ Slack \in Nat \ {0} /\ MaxBits \in Nat
    /\ Unwritten \notin {0, 1}
ASSUME NodesAreApart == Clients \cap Servers = {} /\ Hosts \cup Packets \subseteq Nat \ {0}
ASSUME CallablesAreApart ==
    Functions \cap Blocks = {} /\ None \notin Functions \cup Blocks \cup Small \cup Large
ASSUME PointersAreApart == Null \notin Objects /\ Roots \cap Objects = {}
ASSUME OptionsAreDescribed ==
    /\ Names \subseteq (STRING \X STRING) \ {<<"", "">>}
    /\ Settings \subseteq [type : {"STRING", "CHAR", "INTEGRAL", "REAL"},
                            required : BOOLEAN, num_required : Nat,
                            default_value : Seq(Seq(STRING)), const_value : Seq(Seq(STRING))]
    /\ Words \subseteq Seq(STRING)

VARIABLES part,
          buf, other, queue, otherQueue, hazard,   \* RingBuffer
          net, tree, map, set, meant, spoilt, chunks, wrapped, heap, ringed, fn, parser

Ring == INSTANCE RingBuffer
Net == INSTANCE Networking
Tree == INSTANCE BTree WITH Values <- TreeValues, Default <- Blank
BitsOf == INSTANCE BitSet
Chunk == INSTANCE ChunkAllocator
Wrappers == INSTANCE AllocatorWrappers
Pointer == INSTANCE UniquePointer
Callables == INSTANCE Callable
Args == INSTANCE ArgParser

Parts == {"caches", "ring", "servers", "clients", "tree", "bits", "chunks",
          "wrappers", "pointers", "functions", "arguments"}

libraryVars == <<part, allVars, buf, other, queue, otherQueue, hazard, net, tree, map,
                 set, meant, spoilt, chunks, wrapped, heap, ringed, fn, parser>>

LibraryInit ==
    /\ part \in Parts
    /\ InitAll
    /\ Ring!Init /\ (part # "ring" => buf = Ring!Cleared)
    /\ Net!Init /\ Tree!Init /\ BitsOf!Init /\ Chunk!Init
    /\ Wrappers!Init /\ Pointer!Init /\ Callables!Init /\ Args!Init

\* All parts but p stay as they are.
Others(p) ==
    /\ UNCHANGED part
    /\ p # "caches" => UNCHANGED allVars
    /\ p # "ring" => UNCHANGED <<buf, other, queue, otherQueue, hazard>>
    /\ p \notin {"servers", "clients"} => UNCHANGED net
    /\ p # "tree" => UNCHANGED <<tree, map>>
    /\ p # "bits" => UNCHANGED <<set, meant, spoilt>>
    /\ p # "chunks" => UNCHANGED chunks
    /\ p # "wrappers" => UNCHANGED wrapped
    /\ p # "pointers" => UNCHANGED <<heap, ringed>>
    /\ p # "functions" => UNCHANGED fn
    /\ p # "arguments" => UNCHANGED parser

\* Clients and servers of a program share nothing but the library.
LibraryNext ==
    \/ part = "caches" /\ NextAll /\ Others("caches")
    \/ part = "ring" /\ Ring!Next /\ Others("ring")
    \/ part = "servers" /\ Net!ServersNext /\ Others("servers")
    \/ part = "clients" /\ Net!ClientsNext /\ Others("clients")
    \/ part = "tree" /\ Tree!Next /\ Others("tree")
    \/ part = "bits" /\ BitsOf!Next /\ Others("bits")
    \/ part = "chunks" /\ Chunk!Next /\ Others("chunks")
    \/ part = "wrappers" /\ Wrappers!Next /\ Others("wrappers")
    \/ part = "pointers" /\ Pointer!Next /\ Others("pointers")
    \/ part = "functions" /\ Callables!Next /\ Others("functions")
    \/ part = "arguments" /\ Args!Next /\ Others("arguments")

LibrarySpec == LibraryInit /\ [][LibraryNext]_libraryVars

-----------------------------------------------------------------------------
(* RingBuffer stays a FIFO queue through growth, shrinking, copies and     *)
(* moves, and tells its size, whether it is full and its back truly.       *)
KeepsFifoOrder == Ring!KeepsFifoOrder /\ Ring!CountsItsElements

(* Every ENet host and packet has one object that gives it back, and every *)
(* peer an object of NetServer or NetClient refers to exists.              *)
NetworkIsOwned == Net!EverythingHasOneOwner /\ Net!PeersExist

(* The clients of a NetServer are the connected peers, once each.          *)
ClientListIsCurrent == Net!ClientListIsCurrent

(* A BTree is a dictionary, and each of its nodes can be reached.          *)
TreeIsADictionary == Tree!TreeIsADictionary /\ Tree!NodesAreReachable

(* A BitSet holds the bits that were set, however its array was replaced.  *)
SetHoldsItsBits == BitsOf!SetHoldsItsBits

(* ChunkAllocator's list holds exactly the chunks nobody has; what passes  *)
(* through ConstrainedAllocator and BlockAllocator is counted and comes    *)
(* back to the source as it was given.                                     *)
MemoryIsAccountedFor == Chunk!ChunksAreHandedOutOnce /\ Wrappers!WrappersKeepCount

(* Every object behind a Pointer has one owner and can be reached.         *)
ObjectsAreOwnedOnce == Pointer!ObjectsAreOwnedOnce

(* A Function calls what it was given and owns where that is stored.       *)
CallsWhatItWasGiven == Callables!CallsWhatItWasGiven

(* Command lines that ArgParser accepts fit the options as described.      *)
AcceptedValuesFit == Args!AcceptedValuesFit
=============================================================================
