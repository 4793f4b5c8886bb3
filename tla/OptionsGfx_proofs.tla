-------------------------- MODULE OptionsGfx_proofs --------------------------
(***************************************************************************)
(* For every set of languages and of names, of any length: the settings in *)
(* force are those of the file, with the exceptions that InStep names, and *)
(* whatever is written to the file loads as a whole.                       *)
(***************************************************************************)
EXTENDS OptionsGfx, MusicManager_proofs, SequenceTheorems

(* What is ever in the file: the first items of a full one.                *)
IsFile(f) ==
    \/ f = <<>>
    \/ \E l \in Langs : f = <<l>>
    \/ \E l \in Langs, m \in BOOLEAN : f = <<l, m>>
    \/ \E l \in Langs, m \in BOOLEAN, n \in Nat : f = <<l, m, n>>
    \/ \E l \in Langs, m \in BOOLEAN, n \in Nat, t \in Names : f = <<l, m, n, t>>
Headers == Langs \X BOOLEAN \X {0}

Types ==
    /\ settings \in Settings /\ prev \in Settings /\ controls \in Settings
    /\ inProgress \in BOOLEAN /\ onTop \in BOOLEAN /\ keyboard \in BOOLEAN
    /\ failed \in BOOLEAN /\ loose \in BOOLEAN
    /\ music \in Music
    /\ IsFile(file)
    /\ unflushed \subseteq Headers

(* The inductive invariant.  While the options are open it is the settings *)
(* of Show that are in the file, whatever the language in force is by now; *)
(* between OK and the frame that leaves, that frame changes nothing.       *)
OpenOnTop   == inProgress => onTop
Saved       == ~loose => Loaded(file) = IF inProgress THEN prev ELSE settings
LeavesAlone == ~loose /\ ~inProgress /\ onTop => controls.lang = settings.lang
IOptions    == Types /\ OpenOnTop /\ Saved /\ LeavesAlone
-----------------------------------------------------------------------------
(* The file.                                                               *)
LEMMA ConstantTypes ==
    /\ NoName \in Names /\ CutName \in Names
    /\ Size \in [Names -> Nat] /\ Size[NoName] = 0 /\ Default \in Settings
    /\ \A n \in Names : Size[n] = 0 => n = NoName
BY SettingsAssumption

LEMMA Appended ==
    ASSUME NEW a, NEW b, NEW c, NEW d
    PROVE  Append(<<a, b, c>>, d) = <<a, b, c, d>>
<1> DEFINE S == {a, b, c, d}
           s == Append(<<a, b, c>>, d)
           t == <<a, b, c, d>>
<1>1. <<a, b, c>> \in Seq(S) /\ t \in Seq(S) /\ Len(<<a, b, c>>) = 3 /\ Len(t) = 4
  OBVIOUS
<1>2. s \in Seq(S) /\ Len(s) = 4
  BY <1>1
<1>3. \A i \in 1..4 : s[i] = t[i]
  BY <1>1
<1> HIDE DEF S, s, t
<1> QED BY <1>1, <1>2, <1>3, SeqEqual DEF s, t

LEMMA FileItems ==
    ASSUME NEW f, IsFile(f)
    PROVE  /\ Len(f) \in Nat /\ Len(f) <= 4
           /\ \A i \in DOMAIN f : f[i] \in Item[i]
<1>1. CASE f = <<>>
  BY <1>1
<1>2. CASE \E l \in Langs : f = <<l>>
  BY <1>2 DEF Item
<1>3. CASE \E l \in Langs, m \in BOOLEAN : f = <<l, m>>
  BY <1>3 DEF Item
<1>4. CASE \E l \in Langs, m \in BOOLEAN, n \in Nat : f = <<l, m, n>>
  BY <1>4 DEF Item
<1>5. CASE \E l \in Langs, m \in BOOLEAN, n \in Nat, t \in Names : f = <<l, m, n, t>>
  BY <1>5 DEF Item
<1> QED BY <1>1, <1>2, <1>3, <1>4, <1>5 DEF IsFile

LEMMA FullFile ==
    ASSUME NEW f, IsFile(f), Len(f) = 4
    PROVE  \E l \in Langs, m \in BOOLEAN, n \in Nat, t \in Names : f = <<l, m, n, t>>
<1>1. f # <<>>
  OBVIOUS
<1>2. ~ \E l \in Langs : f = <<l>>
  OBVIOUS
<1>3. ~ \E l \in Langs, m \in BOOLEAN : f = <<l, m>>
  OBVIOUS
<1>4. ~ \E l \in Langs, m \in BOOLEAN, n \in Nat : f = <<l, m, n>>
  OBVIOUS
<1> QED BY <1>1, <1>2, <1>3, <1>4, Zenon DEF IsFile

(* LoadSettings gives settings whatever it finds.                          *)
LEMMA LoadedType == ASSUME NEW f, IsFile(f) PROVE Loaded(f) \in Settings
<1>1. CASE Len(f) < 3 \/ (f[3] > 0 /\ Len(f) = 3)
  BY <1>1, ConstantTypes DEF Loaded
<1>2. CASE \E l \in Langs, m \in BOOLEAN, n \in Nat : f = <<l, m, n>>
  BY <1>2, ConstantTypes DEF Loaded, Settings
<1>3. CASE \E l \in Langs, m \in BOOLEAN, n \in Nat, t \in Names : f = <<l, m, n, t>>
  BY <1>3, ConstantTypes DEF Loaded, Settings
<1> QED BY <1>1, <1>2, <1>3 DEF IsFile

LEMMA HeaderType ==
    ASSUME NEW s \in Settings
    PROVE  /\ Header(s) = <<s.lang, s.music, StoredSize(s.name)>>
           /\ s.lang \in Langs /\ s.music \in BOOLEAN /\ s.name \in Names
           /\ StoredSize(s.name) \in Nat /\ StoredText(s.name) \in Names
           /\ Written(s) = <<s.lang, s.music, StoredSize(s.name), StoredText(s.name)>>
           /\ SaveFails(s) => Header(s) \in Headers
<1>1. s.lang \in Langs /\ s.music \in BOOLEAN /\ s.name \in Names
  BY DEF Settings
<1>2. Size[s.name] \in Nat
  BY <1>1, ConstantTypes
<1>3. StoredSize(s.name) \in Nat
  BY <1>2 DEF StoredSize, ByteLimit
<1>4. StoredText(s.name) \in Names
  BY <1>1, ConstantTypes DEF StoredText
<1>5. Written(s) = <<s.lang, s.music, StoredSize(s.name), StoredText(s.name)>>
  BY Appended DEF Written, Header
<1>6. SaveFails(s) => Header(s) \in Headers
  BY <1>1 DEF SaveFails, Header, Headers
<1> QED BY <1>1, <1>3, <1>4, <1>5, <1>6 DEF Header

LEMMA WrittenType == ASSUME NEW s \in Settings PROVE IsFile(Written(s)) /\ \A f \in Torn(s) : IsFile(f)
<1>1. IsFile(Written(s))
  BY HeaderType DEF IsFile
<1>2. IsFile(<<>>) /\ IsFile(<<s.lang>>) /\ IsFile(<<s.lang, s.music>>) /\ IsFile(Header(s))
  BY HeaderType DEF IsFile
<1>3. Append(Header(s), CutName) = <<s.lang, s.music, StoredSize(s.name), CutName>>
  BY Appended DEF Header
<1>4. IsFile(Append(Header(s), CutName))
  BY <1>3, HeaderType, ConstantTypes DEF IsFile
<1> QED BY <1>1, <1>2, <1>4 DEF Torn

(* A name of 1 to 255 characters comes back as it was.                     *)
LEMMA WrittenLoads ==
    ASSUME NEW s \in Settings, Size[s.name] \in 1..(ByteLimit - 1)
    PROVE  Loaded(Written(s)) = s
<1>1. StoredSize(s.name) = Size[s.name] /\ StoredText(s.name) = s.name
  BY DEF StoredSize, StoredText, ByteLimit
<1>2. Written(s) = <<s.lang, s.music, Size[s.name], s.name>>
  BY <1>1, HeaderType
<1>3. Loaded(Written(s)) = [lang |-> s.lang, music |-> s.music, name |-> s.name]
  BY <1>2 DEF Loaded, ByteLimit
<1> QED BY <1>3 DEF Settings

LEMMA OverType ==
    ASSUME NEW h \in Headers, NEW f, IsFile(f)
    PROVE  /\ IsFile(Over(h, f))
           /\ Loaded(Over(h, f)) = [lang |-> h[1], music |-> h[2], name |-> NoName]
<1>1. PICK l \in Langs, m \in BOOLEAN : h = <<l, m, 0>>
  BY DEF Headers
<1>2. CASE Len(f) = 4
  <2>1. \E l1 \in Langs, m1 \in BOOLEAN, n1 \in Nat, t1 \in Names : f = <<l1, m1, n1, t1>>
    BY <1>2, FullFile
  <2>2. f[4] \in Names
    BY <2>1
  <2>3. Over(h, f) = <<l, m, 0, f[4]>>
    BY <1>1, <1>2, Appended DEF Over
  <2>4. IsFile(Over(h, f))
    BY <2>2, <2>3 DEF IsFile
  <2>5. Loaded(Over(h, f)) = [lang |-> l, music |-> m, name |-> NoName]
    BY <2>3 DEF Loaded
  <2> QED BY <1>1, <2>4, <2>5
<1>3. CASE Len(f) # 4
  <2>1. Over(h, f) = <<l, m, 0>>
    BY <1>1, <1>3 DEF Over
  <2>2. IsFile(Over(h, f))
    BY <2>1 DEF IsFile
  <2>3. Loaded(Over(h, f)) = [lang |-> l, music |-> m, name |-> NoName]
    BY <2>1 DEF Loaded
  <2> QED BY <1>1, <2>2, <2>3
<1> QED BY <1>2, <1>3
-----------------------------------------------------------------------------
(* The start of the program: AppGfx::Init.                                 *)
LEMMA MusicOfMenuType == ASSUME NEW s \in Settings PROVE MusicOfMenu(s) \subseteq Music
<1> SUFFICES ASSUME NEW hardware \in BOOLEAN
             PROVE  PlayMusic(Initialized(hardware, s.music), "INIT") \in Music
  BY DEF MusicOfMenu
<1>1. s.music \in BOOLEAN
  BY HeaderType
<1>2. Initialized(hardware, s.music) \in Music
  BY <1>1, InitializedType
<1> QED BY <1>2, PlayTypes DEF Track

LEMMA InitOptions == Init => IOptions
<1> SUFFICES ASSUME Init PROVE IOptions
  OBVIOUS
<1>1. Default \in Settings
  BY ConstantTypes
<1>2. music \in Music
  BY <1>1, MusicOfMenuType DEF Init
<1>3. IsFile(<<>>) /\ Loaded(<<>>) = Default
  BY DEF IsFile, Loaded
<1>4. Types
  BY <1>1, <1>2, <1>3 DEF Init, Types
<1> QED BY <1>3, <1>4 DEF Init, IOptions, OpenOnTop, Saved, LeavesAlone

LEMMA StartedOptions == ASSUME IsFile(file'), Started(Loaded(file')) PROVE IOptions'
<1>1. Loaded(file') \in Settings
  BY LoadedType
<1>2. music' \in Music
  BY <1>1, MusicOfMenuType DEF Started
<1>3. Types'
  BY <1>1, <1>2 DEF Started, Types
<1> QED BY <1>3 DEF Started, IOptions, OpenOnTop, Saved, LeavesAlone
-----------------------------------------------------------------------------
(* One lemma for each operation.                                           *)
LEMMA ShowOptions == ASSUME IOptions, Show PROVE IOptions'
<1> USE DEF Show, Captured, disk
<1>1. Types'
  BY DEF IOptions, Types
<1>2. ~inProgress
  BY DEF IOptions, OpenOnTop, Types
<1>3. Saved'
  BY <1>2 DEF IOptions, Saved, Types
<1> QED BY <1>1, <1>3 DEF IOptions, OpenOnTop, LeavesAlone

LEMMA UpdateOptions == ASSUME IOptions, UpdateScreen PROVE IOptions'
<1> USE DEF UpdateScreen, Captured, disk
<1>1. Types'
  BY DEF IOptions, Types
<1> QED BY <1>1 DEF IOptions, OpenOnTop, Saved, LeavesAlone

LEMMA SelectLangOptions == ASSUME IOptions, SelectLang PROVE IOptions'
<1> USE DEF SelectLang, Listening, disk
<1>1. controls' \in Settings
  BY DEF IOptions, Types, Settings
<1>2. loose' \in BOOLEAN
  BY DEF IOptions, Types
<1>3. Types'
  BY <1>1, <1>2 DEF IOptions, Types
<1> QED BY <1>3 DEF IOptions, OpenOnTop, Saved, LeavesAlone

LEMMA CheckboxOptions == ASSUME IOptions, CheckboxMusicClicked PROVE IOptions'
<1> USE DEF CheckboxMusicClicked, Listening, disk
<1>1. controls' \in Settings /\ controls'.lang = controls.lang
  BY DEF IOptions, Types, Settings
<1>2. music' \in Music
  <2>1. music \in Music
    BY DEF IOptions, Types
  <2>2. EnableMusic(music) \in Music /\ StopMusic(music) \in Music
    BY <2>1, OperationTypes
  <2>3. PlayCurrentMusic(EnableMusic(music)) \in Music
    BY <2>2, PlayTypes DEF Track
  <2>4. DisableMusic(StopMusic(music)) \in Music
    BY <2>2, OperationTypes
  <2> QED BY <2>3, <2>4
<1>3. Types'
  BY <1>1, <1>2 DEF IOptions, Types
<1> QED BY <1>1, <1>3 DEF IOptions, OpenOnTop, Saved, LeavesAlone

LEMMA EditNameOptions == ASSUME IOptions, EditName PROVE IOptions'
<1> USE DEF EditName, Listening, disk
<1>1. controls' \in Settings /\ controls'.lang = controls.lang
  BY DEF IOptions, Types, Settings
<1>2. Types'
  BY <1>1 DEF IOptions, Types
<1> QED BY <1>1, <1>2 DEF IOptions, OpenOnTop, Saved, LeavesAlone

LEMMA ToggleOptions == ASSUME IOptions, ToggleScreenKeyboard PROVE IOptions'
<1> USE DEF ToggleScreenKeyboard, Listening, disk
<1>1. Types'
  BY DEF IOptions, Types
<1> QED BY <1>1 DEF IOptions, OpenOnTop, Saved, LeavesAlone

LEMMA CloseOptions == ASSUME IOptions, CloseWindow PROVE IOptions'
<1> USE DEF CloseWindow, Listening, disk
<1>1. Types'
  BY DEF IOptions, Types
<1> QED BY <1>1 DEF IOptions, OpenOnTop, Saved, LeavesAlone

LEMMA FrameOptions == ASSUME IOptions, HandleIterate PROVE IOptions'
<1> USE DEF HandleIterate, Listening, disk
<1>1. settings' \in Settings
  BY DEF IOptions, Types, Settings
<1>2. Types'
  BY <1>1 DEF IOptions, Types
<1>3. ~loose /\ ~inProgress => settings' = settings
  BY DEF IOptions, Types, LeavesAlone, Settings
<1>4. Saved'
  BY <1>3 DEF IOptions, Saved, Types
<1> QED BY <1>2, <1>4 DEF IOptions, OpenOnTop, LeavesAlone

(* OptionsEnd, which saves unless nothing has changed since Show.          *)
LEMMA SavedWhole ==
    ASSUME IOptions, OptionsEnd, Changed(controls)
    PROVE  /\ IsFile(file') /\ unflushed' \subseteq Headers /\ loose' \in BOOLEAN
           /\ ~loose' => Loaded(file') = controls
           /\ file' \in {<<>>, Written(controls)}
<1>1. controls \in Settings /\ unflushed \subseteq Headers
  BY DEF IOptions, Types
<1>2. SaveSettings(controls)
  BY DEF OptionsEnd
<1>3. file' \in {<<>>, Written(controls)}
  BY <1>2 DEF SaveSettings
<1>4. IsFile(file')
  BY <1>1, <1>3, WrittenType DEF IsFile
<1>5. unflushed' \subseteq Headers
  BY <1>1, <1>2, HeaderType DEF SaveSettings
<1>6. loose' \in BOOLEAN
  BY <1>2 DEF SaveSettings
<1>7. ASSUME ~loose' PROVE Loaded(file') = controls
  <2>1. Size[controls.name] \in 1..(ByteLimit - 1)
    BY <1>2, <1>7 DEF SaveSettings
  <2>2. ~SaveFails(controls)
    BY <2>1 DEF SaveFails, StoredSize, ByteLimit
  <2> QED BY <1>1, <1>2, <2>1, <2>2, WrittenLoads DEF SaveSettings
<1> QED BY <1>3, <1>4, <1>5, <1>6, <1>7

LEMMA EndOptions ==
    ASSUME IOptions, OptionsEnd, failed' \in BOOLEAN
    PROVE  IOptions'
<1>1. CASE Changed(controls)
  <2>1. /\ IsFile(file') /\ unflushed' \subseteq Headers /\ loose' \in BOOLEAN
        /\ ~loose' => Loaded(file') = controls
    BY <1>1, SavedWhole
  <2>2. Types'
    BY <2>1 DEF IOptions, Types, OptionsEnd
  <2> QED BY <2>1, <2>2 DEF IOptions, OptionsEnd, OpenOnTop, Saved, LeavesAlone
<1>2. CASE ~Changed(controls)
  <2>1. loose' = (loose \/ ~inProgress) /\ UNCHANGED disk /\ controls = prev
    BY <1>2 DEF OptionsEnd, Changed
  <2>2. loose' \in BOOLEAN
    BY <2>1 DEF IOptions, Types
  <2>3. Types'
    BY <2>1, <2>2 DEF IOptions, Types, OptionsEnd, disk
  <2> QED BY <2>1, <2>3 DEF IOptions, OptionsEnd, OpenOnTop, Saved, LeavesAlone, disk
<1> QED BY <1>1, <1>2

LEMMA ButtonOptions == ASSUME IOptions, EndByButton PROVE IOptions'
<1>1. failed' \in BOOLEAN
  BY DEF IOptions, Types, EndByButton
<1> QED BY <1>1, EndOptions DEF EndByButton

LEMMA KeyOptions == ASSUME IOptions, EndByKey PROVE IOptions'
<1>1. failed' \in BOOLEAN
  BY DEF EndByKey
<1> QED BY <1>1, EndOptions DEF EndByKey

LEMMA ExitOptions == ASSUME IOptions, Exit PROVE IOptions'
<1>1. IsFile(file) /\ unflushed \subseteq Headers
  BY DEF IOptions, Types
<1>2. IsFile(file')
  BY <1>1, OverType DEF Exit
<1> QED BY <1>2, StartedOptions DEF Exit

LEMMA CrashOptions == ASSUME IOptions, Crash PROVE IOptions'
<1>1. IsFile(file')
  BY DEF IOptions, Types, Crash
<1> QED BY <1>1, StartedOptions DEF Crash

LEMMA CrashInSaveOptions == ASSUME IOptions, CrashInSave PROVE IOptions'
<1>1. controls \in Settings
  BY DEF IOptions, Types
<1>2. IsFile(file')
  BY <1>1, WrittenType DEF CrashInSave
<1> QED BY <1>2, StartedOptions DEF CrashInSave

LEMMA StutterOptions == ASSUME IOptions, UNCHANGED vars PROVE IOptions'
BY DEF vars, screen, disk, IOptions, Types, OpenOnTop, Saved, LeavesAlone

LEMMA NextOptions == IOptions /\ [Next]_vars => IOptions'
BY ShowOptions, UpdateOptions, SelectLangOptions, CheckboxOptions, EditNameOptions,
   ToggleOptions, ButtonOptions, KeyOptions, CloseOptions, FrameOptions,
   ExitOptions, CrashOptions, CrashInSaveOptions, StutterOptions, Zenon DEF Next
-----------------------------------------------------------------------------
LEMMA TypesOptions == Types => OptionsTypeOK
<1> SUFFICES ASSUME Types PROVE OptionsTypeOK
  OBVIOUS
<1>1. Len(file) <= 4 /\ \A i \in DOMAIN file : file[i] \in Item[i]
  BY FileItems DEF Types
<1>2. {inProgress, onTop, keyboard, failed, loose} \subseteq BOOLEAN
  BY Zenon DEF Types
<1>3. {settings, prev, controls} \subseteq Settings
  BY DEF Types
<1> QED BY <1>1, <1>2, <1>3 DEF Types, OptionsTypeOK, Headers

(* Types of the options screen, of the settings and of their file.         *)
THEOREM OptionsTyped == Spec => []OptionsTypeOK
<1>1. IOptions => OptionsTypeOK
  BY TypesOptions DEF IOptions
<1> QED BY <1>1, InitOptions, NextOptions, PTL DEF Spec

(* Outside the options the settings in force are those of the file, as     *)
(* OptionsGfx::OptionsEnd relies on when it saves only what has changed    *)
(* since OptionsGfx::Show.                                                 *)
THEOREM SettingsInStep == Spec => []InStep
<1>1. IOptions => InStep
  BY DEF IOptions, Saved, InStep
<1> QED BY <1>1, InitOptions, NextOptions, PTL DEF Spec
-----------------------------------------------------------------------------
(* What LoadSettings makes of a file that was cut off, or of a name that   *)
(* was too long for its size.                                              *)
LEMMA WrittenRemains ==
    ASSUME NEW s \in Settings
    PROVE  Loaded(Written(s)) \in Remains(s)
<1>1. /\ Written(s) = <<s.lang, s.music, StoredSize(s.name), StoredText(s.name)>>
      /\ StoredSize(s.name) \in Nat
  BY HeaderType
<1>2. PICK n : n \in {NoName, StoredText(s.name)} /\
               Loaded(Written(s)) = [lang |-> s.lang, music |-> s.music, name |-> n]
  BY <1>1 DEF Loaded
<1>3. n \in {s.name, CutName, NoName}
  BY <1>2 DEF StoredText
<1>4. [lang |-> s.lang, music |-> s.music, name |-> n] = [s EXCEPT !.name = n]
  BY DEF Settings
<1> QED BY <1>2, <1>3, <1>4 DEF Remains

LEMMA TornRemains ==
    ASSUME NEW s \in Settings, NEW f \in Torn(s)
    PROVE  Loaded(f) \in {Default} \cup Remains(s)
<1>1. CASE f \in {<<>>, <<s.lang>>, <<s.lang, s.music>>}
  BY <1>1 DEF Loaded
<1>2. CASE f = Header(s)
  <2>1. Len(f) = 3 /\ f[1] = s.lang /\ f[2] = s.music /\ f[3] \in Nat
    BY <1>2, HeaderType
  <2>2. f[3] > 0 => Loaded(f) = Default
    BY <2>1 DEF Loaded
  <2>3. ~(f[3] > 0) => Loaded(f) = [s EXCEPT !.name = NoName]
    BY <2>1 DEF Loaded, Settings
  <2> QED BY <2>2, <2>3 DEF Remains
<1>3. CASE f = Append(Header(s), CutName)
  <2>1. f = <<s.lang, s.music, StoredSize(s.name), CutName>> /\ StoredSize(s.name) \in Nat
    BY <1>3, HeaderType, Appended
  <2>2. \E n \in {CutName, NoName} : Loaded(f) = [lang |-> s.lang, music |-> s.music, name |-> n]
    BY <2>1 DEF Loaded
  <2>3. \A n : [lang |-> s.lang, music |-> s.music, name |-> n] = [s EXCEPT !.name = n]
    BY DEF Settings
  <2> QED BY <2>2, <2>3 DEF Remains
<1>4. CASE f = Written(s)
  BY <1>4, WrittenRemains
<1> QED BY <1>1, <1>2, <1>3, <1>4 DEF Torn

(* A crash in OptionsEnd, a name that does not fit or a forgotten header   *)
(* never make a mixture of the settings: LoadSettings takes all or nothing.*)
THEOREM SettingsWhole == Spec => LoadedWhole
<1> DEFINE Good == Loaded(file') \in {Default} \cup Remains(controls) \cup Recovered
<1>1. ASSUME IOptions, [Next]_vars, file' # file PROVE Good
  <2>1. controls \in Settings /\ IsFile(file) /\ unflushed \subseteq Headers
    BY <1>1 DEF IOptions, Types
  <2>2. CASE OptionsEnd
    <3>1. Changed(controls)
      BY <1>1, <2>2 DEF OptionsEnd, disk
    <3>2. file' \in {<<>>, Written(controls)}
      BY <1>1, <2>2, <3>1, SavedWhole
    <3>3. file' \in Torn(controls)
      BY <3>2 DEF Torn
    <3> QED BY <2>1, <3>3, TornRemains
  <2>3. CASE Exit
    <3>1. PICK h \in unflushed : file' = Over(h, file)
      BY <1>1, <2>3 DEF Exit
    <3>2. Loaded(file') = [lang |-> h[1], music |-> h[2], name |-> NoName]
      BY <2>1, <3>1, OverType
    <3> QED BY <3>2 DEF Recovered
  <2>4. CASE CrashInSave
    BY <2>1, <2>4, TornRemains DEF CrashInSave
  <2>5. CASE Show \/ UpdateScreen \/ SelectLang \/ CheckboxMusicClicked \/ EditName
               \/ ToggleScreenKeyboard \/ CloseWindow \/ HandleIterate \/ UNCHANGED vars
    BY <1>1, <2>5, Zenon DEF Show, UpdateScreen, SelectLang, CheckboxMusicClicked, EditName,
       ToggleScreenKeyboard, CloseWindow, HandleIterate, vars, disk
  <2>6. CASE Crash
    BY <1>1, <2>6 DEF Crash
  <2> QED BY <1>1, <2>2, <2>3, <2>4, <2>5, <2>6, Zenon DEF Next, EndByButton, EndByKey
<1>2. IOptions /\ [Next]_vars => [file' # file => Good]_vars
  BY <1>1
<1> QED BY <1>2, InitOptions, NextOptions, PTL DEF Spec, LoadedWhole
=============================================================================
