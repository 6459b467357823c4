------------------------------ MODULE MCFiles ------------------------------
(***************************************************************************)
(* Four small file systems for TLC, side by side.  "deep": one file that   *)
(* may grow through its doubly-indirect block to MAXFILE, on a disk too    *)
(* small for it (module FileMap).  "wide": two files of direct and         *)
(* indirect blocks that compete for a still smaller disk (FileMap).        *)
(* "inodes": files of one directory and the inode table (Inodes, whose     *)
(* variables, constants and properties are the module's own).  "names": a  *)
(* tree of directories (Names).  A behaviour is one of one system; the     *)
(* variables of the others rest.                                           *)
(***************************************************************************)
EXTENDS Inodes, Sequences, TLC

CONSTANTS Systems,                     \* the ones to explore
          NDIRECT, NINDIRECT, MaxN,
          DeepSize, WideSize,          \* blocks of the two disks
          WideLen,                     \* bound on the length of the two files
          Walkers, Dinodes, ROOTINO, MaxEntries, Careful   \* Names

VARIABLES system,
          used, words, tag, addrs, size, transfer, panicked,
          inode, locks, walk, cwd, panic

mapVars == <<used, words, tag, addrs, size, transfer, panicked>>
nameVars == <<inode, locks, walk, cwd, panic>>
filesVars == <<system, mapVars, vars, nameVars>>

MAXFILE == NDIRECT + NINDIRECT + NINDIRECT * NINDIRECT
Paths == {<<"a">>, <<"a", "/", "b", "/">>, <<"..", "/", "/", "a">>}

Deep == INSTANCE FileMap WITH Inodes <- {"i1"}, SIZE <- DeepSize, MaxLen <- MAXFILE, op <- transfer
Wide == INSTANCE FileMap WITH Inodes <- {"i1", "i2"}, SIZE <- WideSize, MaxLen <- WideLen, op <- transfer
Tree == INSTANCE Names WITH Procs <- Walkers, Inums <- Dinodes, lock <- locks, op <- walk

ASSUME FilesAssumption ==
    /\ Deep!FileMapAssumption /\ Wide!FileMapAssumption /\ WideLen =< NDIRECT + NINDIRECT
    /\ InodesAssumption /\ Tree!NamesAssumption

Symmetry == Permutations(Procs) \cup Permutations(Names)

Rest == <<>>
MapRests == /\ used = Rest /\ words = Rest /\ tag = Rest /\ addrs = Rest /\ size = Rest
            /\ transfer = Rest /\ panicked = Rest
NamesRest == inode = Rest /\ locks = Rest /\ walk = Rest /\ cwd = Rest /\ panic = Rest

FilesInit == /\ system \in Systems
             /\ Init
             /\ \/ system = "deep" /\ Deep!Init /\ NamesRest
                \/ system = "wide" /\ Wide!Init /\ NamesRest
                \/ system = "inodes" /\ MapRests /\ NamesRest
                \/ system = "names" /\ Tree!Init /\ MapRests

DeepNext == system = "deep" /\ Deep!Next /\ UNCHANGED <<system, vars, nameVars>>
WideNext == system = "wide" /\ Wide!Next /\ UNCHANGED <<system, vars, nameVars>>
TableNext == system = "inodes" /\ Next /\ UNCHANGED <<system, mapVars, nameVars>>
TreeNext == system = "names" /\ Tree!Next /\ UNCHANGED <<system, mapVars, vars>>

FilesNext == DeepNext \/ WideNext \/ TableNext \/ TreeNext

FilesSpec == FilesInit /\ [][FilesNext]_filesVars

-----------------------------------------------------------------------------
\* No block belongs to two places: bmap() and itrunc() keep every address in
\* the map the only one with its value, marked in use, and not the boot block,
\* which a single file never writes to.  Files without a doubly-indirect block
\* lose no block, whatever fails, and bfree() never finds a block free.
OneOwner == /\ system = "deep" => Deep!OneOwner /\ Deep!BootBlockClean
            /\ system = "wide" => Wide!OneOwner /\ Wide!NoLeak /\ Wide!NoPanic

\* Every block below the size of a file holds what was last written to it
\* through that file, at every depth of the map.
ReadsBack == /\ system = "deep" => Deep!ReadsBack
             /\ system = "wide" => Wide!ReadsBack

\* readi() runs outside a transaction: its bmap() never allocates.
ReadsAllocateNothing ==
    [][\A i \in DOMAIN transfer : transfer[i].kind = "read" /\ transfer'[i] # transfer[i]
           => UNCHANGED <<used, words>>]_filesVars

\* itrunc() "discards contents": a block in use belongs to the file.
NoLeak == system = "deep" => Deep!NoLeak

\* The directories are a tree with exact link counts, whatever calls cross.
TreeSound == system = "names" => Tree!TreeSound

\* ilock() never finds an inode without a type behind a name.
NamesHaveInodes == system = "names" => Tree!NoPanic
=============================================================================
