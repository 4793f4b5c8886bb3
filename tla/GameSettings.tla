---------------------------- MODULE GameSettings ----------------------------
(***************************************************************************)
(* GameSettings: the settings, how SaveSettings writes them to their file  *)
(* item by item and how LoadSettings reads them back, as operators.        *)
(*                                                                         *)
(* A settings record keeps three of the five items.  lang stands for the   *)
(* language and the background, which the options screen applies at once;  *)
(* name for the name and the deck, which wait for OK.  A file is the       *)
(* sequence <<lang, music, size, text>> or what is there of it: a missing  *)
(* file and an empty one load alike.                                       *)
(***************************************************************************)
EXTENDS Integers, Sequences

CONSTANTS Langs, Names,
          NoName,    \* the empty name
          CutName,   \* stands for what is left of a name that lost its end
          Size,      \* PlayerName.size()
          Default    \* the settings of the constructor

Settings  == [lang : Langs, music : BOOLEAN, name : Names]
ByteLimit == 256     \* nameSize is a uint8_t

ASSUME SettingsAssumption ==
    /\ {NoName, CutName} \subseteq Names
    /\ Size \in [Names -> Nat]
    /\ \A n \in Names : Size[n] = 0 <=> n = NoName
    /\ Size[CutName] < ByteLimit
    /\ Default \in Settings

(* SaveSettings fails when it can write no character of the name.          *)
StoredSize(n) == Size[n] % ByteLimit
SaveFails(s)  == StoredSize(s.name) = 0

StoredText(n) == IF Size[n] < ByteLimit THEN n ELSE CutName

Header(s)  == <<s.lang, s.music, StoredSize(s.name)>>
Written(s) == Append(Header(s), StoredText(s.name))

(* What a crash in the middle of writing s leaves in the file.             *)
Torn(s) == {<<>>, <<s.lang>>, <<s.lang, s.music>>, Header(s),
            Append(Header(s), CutName), Written(s)}

(* LoadSettings: all or nothing; on an error the settings stay as the      *)
(* constructor made them.                                                  *)
AsRead(f) ==         \* mutant: the items are assigned as they are read
    [lang  |-> IF Len(f) > 0 THEN f[1] ELSE Default.lang,
     music |-> IF Len(f) > 1 THEN f[2] ELSE Default.music,
     name  |-> IF Len(f) > 3 THEN f[4] ELSE Default.name]
Loaded(f) ==
    IF Len(f) < 3 \/ (f[3] > 0 /\ Len(f) = 3) THEN Default
    ELSE [lang |-> f[1], music |-> f[2], name |-> IF f[3] > 0 THEN f[4] ELSE NoName]

(* A header that is written over the beginning of the file.                *)
Behind(h, f) == f \o h   \* mutant: it is added to the end of the file
Over(h, f) == IF Len(f) = 4 THEN Append(h, f[4]) ELSE h
=============================================================================
