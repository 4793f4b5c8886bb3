CONSTANTS
  TouchWithoutMouse = FALSE
  HasQuitMenu = TRUE
SPECIFICATION FairSpec
INVARIANTS
  ShellTypeOK
  MenuStack
  NeverFails
  ScreensAgree
  RightMusic
  CaptionTells
PROPERTY ShowsEnd
CHECK_DEADLOCK FALSE
