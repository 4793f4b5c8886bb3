------------------------ MODULE MusicManager_proofs -------------------------
(***************************************************************************)
(* The operations of MusicManager stay within its flags; what they leave   *)
(* alone.  The modules that use the music cite these facts.                *)
(***************************************************************************)
EXTENDS MusicManager, TLAPS

(* MusicManager::Initialize.                                               *)
LEMMA InitializedType ==
    ASSUME NEW hardware \in BOOLEAN, NEW enabled \in BOOLEAN
    PROVE  Initialized(hardware, enabled) \in Music
BY DEF Initialized, Music, Track

(* MusicManager::StopMusic, PauseMusic, ResumeMusic, EnableMusic,          *)
(* DisableMusic.                                                           *)
LEMMA OperationTypes ==
    ASSUME NEW m \in Music
    PROVE  /\ StopMusic(m) \in Music /\ PauseMusic(m) \in Music /\ ResumeMusic(m) \in Music
           /\ EnableMusic(m) \in Music /\ DisableMusic(m) \in Music /\ Silenced(m) \in Music
<1>1. StopMusic(m) \in Music
  BY DEF StopMusic, Music
<1>2. PauseMusic(m) \in Music
  BY DEF PauseMusic, Music
<1>3. ResumeMusic(m) \in Music
  BY DEF ResumeMusic, Music
<1>4. EnableMusic(m) \in Music
  BY DEF EnableMusic, Music
<1>5. DisableMusic(m) \in Music
  BY DEF DisableMusic, Music
<1> QED BY <1>1, <1>2, <1>3, <1>4, <1>5 DEF Silenced

(* MusicManager::PlayMusic, PlayCurrentMusic.                              *)
LEMMA PlayTypes ==
    ASSUME NEW m \in Music, NEW t \in Track
    PROVE  PlayMusic(m, t) \in Music /\ PlayCurrentMusic(m) \in Music
<1>1. ASSUME NEW u \in Track PROVE PlayMusic(m, u) \in Music
  BY DEF PlayMusic, Music
<1>2. m.current \in Track
  BY DEF Music
<1> QED BY <1>1, <1>2 DEF PlayCurrentMusic
=============================================================================
