---------------------------- MODULE ConfigStore ----------------------------
(***************************************************************************)
(* configs.json (configs.py): validate_strict, the save through a          *)
(* temporary file that is renamed over the old one, and load() with its    *)
(* rescue of a file it cannot read.  A configuration is its name, the one  *)
(* field the list is searched by.  A save takes several steps: power may   *)
(* go, and the disk may refuse, at each of them.  The backup copy is read  *)
(* by nothing in the program and is left out, as its errors are swallowed. *)
(***************************************************************************)
EXTENDS Integers, Sequences, Functions

CONSTANTS
    Name,       \* the names a configuration may have
    MaxConfigs  \* MAX_CONFIGS

ASSUME StoreAssumption == MaxConfigs \in Nat

VARIABLES
    file,       \* configs.json: whether it is there and can be read, and its list
    saving      \* the save under way: the step it is at and the new list

store == <<file, saving>>

\* validate_strict: not too many, and every name once.
Valid(list) == Len(list) <= MaxConfigs /\ IsInjective(list)

Lists ==
    {list \in UNION {[1..n -> Name] : n \in 0..MaxConfigs} : IsInjective(list)}

\* No file; one that the parser refuses; and one that it reads.
Missing == [kind |-> "missing", configs |-> <<>>]
Corrupt == [kind |-> "corrupt", configs |-> <<>>]
Listing(list) == [kind |-> "list", configs |-> list]

NoSave == [step |-> "none", configs |-> <<>>]

StoreInit ==
    /\ file \in {Missing, Corrupt} \cup {Listing(list) : list \in Lists}
    /\ saving = NoSave

Save(list) ==
    /\ saving = NoSave
    /\ Valid(list)
    /\ saving' = [step |-> "write", configs |-> list]
    /\ UNCHANGED file

\* tmp.write_text(...): nothing reads the temporary file, whatever is in it.
WriteTmp ==
    /\ saving.step = "write"
    /\ saving' = [saving EXCEPT !.step = "replace"]
    /\ UNCHANGED file

\* os.replace(tmp, path)
Replace ==
    /\ saving.step = "replace"
    /\ file' = Listing(saving.configs)
    /\ saving' = NoSave

SaveRaises ==
    /\ saving # NoSave
    /\ saving' = NoSave
    /\ UNCHANGED file

\* A file that is not there is created empty; one that cannot be read is moved aside,
\* if the disk lets it, and not replaced before the next save.
Load ==
    /\ CASE file.kind = "missing" -> file' = Listing(<<>>)
         [] file.kind = "corrupt" -> file' \in {Missing, Corrupt}
         [] OTHER                 -> UNCHANGED file
    /\ UNCHANGED saving

CutShort ==
    /\ saving' = NoSave
    /\ UNCHANGED file
=============================================================================
