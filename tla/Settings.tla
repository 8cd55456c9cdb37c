------------------------------ MODULE Settings ------------------------------
(***************************************************************************)
(* Settings and passwords on disk (infrastructure/config_manager.py,       *)
(* core/security/encryption.py), the dialog that edits them                *)
(* (gui/dialogs/settings) and the wizard of the first start                *)
(* (gui/dialogs/setup_wizard), whose connection check puts the fields into *)
(* the settings of the whole program.  A key is its number; passwords are  *)
(* how they were typed and the key they are encrypted with.                *)
(***************************************************************************)
EXTENDS Naturals

CONSTANTS
  Keystores, \* what seals the key: "dpapi", "keyring" or "file"
  Typings,   \* bound: passwords typed
  Keys       \* bound: keys made, and with them starts of the program

ASSUME SettingsAssumption ==
  Keystores \subseteq {"dpapi", "keyring", "file"} /\ {Typings, Keys} \subseteq Nat \ {0}

VARIABLES
  keystore, \* what seals it, the file .keystore, the keyring, keys made
  fernet,   \* the key in memory
  settings, \* ConfigManager._settings
  file,     \* settings.json
  dialog,   \* the settings dialog: what was typed, whether to clear
  wizard,   \* the wizard, its check, and the settings there were before it
  typed     \* passwords typed so far
settingsVars == <<keystore, fernet, settings, file, dialog, wizard, typed>>

NoKey == 0
NoPasswords == [typed |-> 0, key |-> NoKey]
Corrupt == Keys + 1  \* what is in a keystore that cannot be read
Passwords == [typed: 0..Typings, key: 0..Keys]
Defaults == [passwords |-> NoPasswords, completed |-> FALSE]
SettingsRecords == [passwords: Passwords, completed: BOOLEAN]
NotThere == [readable |-> FALSE, saved |-> Defaults]
Closed == [open |-> FALSE, typed |-> 0, cleared |-> FALSE]
NoWizard == [state |-> "none", typed |-> 0, check |-> "none",
             prev |-> NoPasswords, before |-> Defaults]

AppRuns == fernet # NoKey

SettingsTypeOK ==
  /\ keystore \in [seal: Keystores, file: 0..Corrupt, keyring: 0..Keys, made: 0..Keys]
  /\ fernet \in 0..Keys /\ settings \in SettingsRecords
  /\ file \in [readable: BOOLEAN, saved: SettingsRecords]
  /\ dialog \in [open: BOOLEAN, typed: 0..Typings, cleared: BOOLEAN]
  /\ wizard \in [state: {"none", "open", "saved", "left"}, typed: 0..Typings,
                 check: {"none", "runs", "cancelled"}, prev: Passwords, before: SettingsRecords]
  /\ typed \in 0..Typings

SettingsInit ==
  /\ \E s \in Keystores : keystore = [seal |-> s, file |-> NoKey, keyring |-> NoKey, made |-> 0]
  /\ fernet = NoKey /\ settings = Defaults /\ file = NotThere
  /\ dialog = Closed /\ wizard = NoWizard /\ typed = 0

-----------------------------------------------------------------------------
(* The key *)

\* _write_key_bytes: with a keyring the file is removed, whether the keyring
\* took the key or not.
WriteKey(k) ==
  IF keystore.seal = "keyring"
  THEN \E ok \in BOOLEAN :
         keystore' = [keystore EXCEPT !.file = NoKey, !.keyring = IF ok THEN k ELSE @,
                                      !.made = IF k > @ THEN k ELSE @]
  ELSE keystore' = [keystore EXCEPT !.file = k, !.made = IF k > @ THEN k ELSE @]

\* _load_key_bytes: the keyring first, and a key in a plain file is moved there.
LoadKey ==
  IF keystore.seal = "keyring" /\ keystore.keyring # NoKey
  THEN fernet' = keystore.keyring /\ UNCHANGED keystore
  ELSE /\ keystore.file # Corrupt
       /\ fernet' = keystore.file /\ WriteKey(keystore.file)

GenerateKey ==
  /\ keystore.made < Keys
  /\ fernet' = keystore.made + 1 /\ WriteKey(keystore.made + 1)

\* _load_or_create_key: the file decides whether there is a key.
LoadOrCreateKey ==
  IF keystore.file # NoKey THEN LoadKey ELSE GenerateKey

\* The program starts: _load, the key, and the wizard of a first start.
ProgramStarts ==
  /\ ~AppRuns /\ LoadOrCreateKey
  /\ settings' = IF file.readable THEN file.saved ELSE Defaults
  /\ wizard' = IF settings'.completed THEN NoWizard
               ELSE [NoWizard EXCEPT !.state = "open", !.before = settings']
  /\ dialog' = Closed
  /\ UNCHANGED <<file, typed>>

ProgramStops ==
  /\ AppRuns /\ wizard.state # "open"
  /\ fernet' = NoKey /\ settings' = Defaults /\ dialog' = Closed /\ wizard' = NoWizard
  /\ UNCHANGED <<keystore, file, typed>>

\* Power is lost, perhaps while a file is written.
Crash ==
  /\ AppRuns
  /\ fernet' = NoKey /\ settings' = Defaults /\ dialog' = Closed /\ wizard' = NoWizard
  /\ \/ UNCHANGED <<keystore, file>>
     \/ file' = NotThere /\ UNCHANGED keystore
     \/ keystore.seal = "dpapi" /\ keystore' = [keystore EXCEPT !.file = Corrupt] /\ UNCHANGED file
  /\ UNCHANGED typed

-----------------------------------------------------------------------------
(* ConfigManager *)

Encrypted(n) == [typed |-> n, key |-> fernet]
Saved == file' = [readable |-> TRUE, saved |-> settings']

\* update of any section: the whole of the settings is written.
UpdateOther ==
  /\ AppRuns /\ wizard.state \in {"none", "saved"} /\ ~dialog.open
  /\ file.readable /\ UNCHANGED settings /\ Saved
  /\ UNCHANGED <<keystore, fernet, dialog, wizard, typed>>

-----------------------------------------------------------------------------
(* The settings dialog *)

\* load: the fields of passwords stay empty.
SettingsRead == [open |-> TRUE, typed |-> 0, cleared |-> FALSE]

OpenDialog ==
  /\ AppRuns /\ wizard.state \in {"none", "saved"} /\ ~dialog.open
  /\ dialog' = SettingsRead
  /\ UNCHANGED <<keystore, fernet, settings, file, wizard, typed>>

TypeInDialog ==
  /\ dialog.open /\ typed < Typings /\ typed' = typed + 1
  /\ dialog' = [dialog EXCEPT !.typed = typed + 1]
  /\ UNCHANGED <<keystore, fernet, settings, file, wizard>>

\* _show_ssh_passwords: what is shown is in the field, and saved again; what
\* cannot be decrypted is not shown.
ShowPasswords ==
  /\ dialog.open /\ settings.passwords.typed # 0 /\ settings.passwords.key = fernet
  /\ dialog' = [dialog EXCEPT !.typed = settings.passwords.typed]
  /\ UNCHANGED <<keystore, fernet, settings, file, wizard, typed>>

\* _clear_ssh_passwords: only marked until the dialog is saved.
ClearPasswords ==
  /\ dialog.open
  /\ dialog' = [dialog EXCEPT !.typed = 0, !.cleared = TRUE]
  /\ UNCHANGED <<keystore, fernet, settings, file, wizard, typed>>

\* save of the tab Connection: an empty field changes nothing.
Edited ==
  IF dialog.cleared THEN NoPasswords
  ELSE IF dialog.typed = 0 THEN settings.passwords ELSE Encrypted(dialog.typed)

\* _save_all: each tab updates and writes, and one that raises ends it; the
\* dialog stays open after "Apply", and after an error.
SaveDialog ==
  /\ dialog.open
  /\ \/ settings' = [settings EXCEPT !.passwords = Edited] /\ (Saved \/ UNCHANGED file)
     \/ UNCHANGED <<settings, file>>
  /\ dialog' \in {Closed, dialog}
  /\ UNCHANGED <<keystore, fernet, wizard, typed>>

CancelDialog ==
  /\ dialog.open /\ dialog' = Closed
  /\ UNCHANGED <<keystore, fernet, settings, file, wizard, typed>>

-----------------------------------------------------------------------------
(* The wizard *)

TypeInWizard ==
  /\ wizard.state = "open" /\ typed < Typings /\ typed' = typed + 1
  /\ wizard' = [wizard EXCEPT !.typed = typed + 1]
  /\ UNCHANGED <<keystore, fernet, settings, file, dialog>>

\* _run_test: the fields, empty or not, are the settings while it runs.
StartCheck ==
  /\ wizard.state = "open" /\ wizard.check = "none"
  /\ wizard' = [wizard EXCEPT !.check = "runs", !.prev = settings.passwords]
  /\ settings' = [settings EXCEPT !.passwords =
       IF wizard.typed = 0 THEN NoPasswords ELSE Encrypted(wizard.typed)]
  /\ UNCHANGED <<keystore, fernet, file, dialog, typed>>

\* Mutant: a check that was cancelled restores nothing.
CheckEndsWell ==
  /\ wizard.check # "none"
  /\ settings' = IF wizard.check = "runs"
                 THEN [settings EXCEPT !.passwords = wizard.prev] ELSE settings
  /\ wizard' = [wizard EXCEPT !.check = "none", !.prev = NoPasswords]
  /\ UNCHANGED <<keystore, fernet, file, dialog, typed>>

\* The finally of _do_test_async.
CheckEnds ==
  /\ wizard.check # "none"
  /\ settings' = [settings EXCEPT !.passwords = wizard.prev]
  /\ wizard' = [wizard EXCEPT !.check = "none", !.prev = NoPasswords]
  /\ UNCHANGED <<keystore, fernet, file, dialog, typed>>

\* _on_finished asks the check to end, and writes the settings at once: an
\* empty field leaves the passwords as they are.
SaveWizard ==
  /\ wizard.state = "open"
  /\ settings' = [passwords |-> IF wizard.typed = 0 THEN settings.passwords
                                ELSE Encrypted(wizard.typed),
                  completed |-> TRUE]
  /\ Saved
  /\ wizard' = [wizard EXCEPT !.state = "saved",
                              !.check = IF @ = "runs" THEN "cancelled" ELSE @]
  /\ UNCHANGED <<keystore, fernet, dialog, typed>>

\* The wizard is left: the program ends, after what the loop has to do still.
LeaveWizard ==
  /\ wizard.state = "open"
  /\ wizard' = [wizard EXCEPT !.state = "left",
                              !.check = IF @ = "runs" THEN "cancelled" ELSE @]
  /\ UNCHANGED <<keystore, fernet, settings, file, dialog, typed>>

-----------------------------------------------------------------------------
SettingsNext ==
  \/ ProgramStarts \/ ProgramStops \/ Crash \/ UpdateOther
  \/ OpenDialog \/ TypeInDialog \/ ShowPasswords \/ ClearPasswords \/ SaveDialog
  \/ CancelDialog \/ TypeInWizard \/ StartCheck \/ CheckEnds \/ SaveWizard \/ LeaveWizard

SettingsSpec == SettingsInit /\ [][SettingsNext]_settingsVars

-----------------------------------------------------------------------------
\* Where the file holds the key, saved passwords can be decrypted with the key
\* of the program that runs, through crashes and restarts: a corrupted keystore
\* "raises loudly instead of silently regenerating" (_load_or_create_key).
PasswordsReadable ==
  AppRuns /\ keystore.seal # "keyring" /\ file.readable /\ file.saved.passwords.typed # 0
    => file.saved.passwords.key = fernet

\* A wizard that is left leaves the settings and the file as they were, also
\* when it is left while its check runs ("Check must not save silently").
CheckIsUndone ==
  wizard.state = "left" /\ wizard.check = "none"
    => /\ settings = wizard.before
       /\ file.readable => file.saved = wizard.before

\* "Cancel in the settings dialog has to bring back the clearing as well"
\* (_clear_ssh_passwords): outside the wizard's check passwords vanish from the
\* settings only when a dialog is saved in which they were cleared.  A dialog
\* cancelled after the clearing, one saved with empty fields, and every other
\* save keep them.
ClearedOnPurpose ==
  [][settings.passwords.typed # 0 /\ settings'.passwords.typed = 0 /\ AppRuns'
     /\ wizard.check = "none" /\ wizard'.check = "none"
       => dialog.open /\ dialog.cleared]_settingsVars

\* "On first use, master key is generated" (encryption.py): a key is made only
\* when there are no passwords yet that another one encrypted.
KeyIsMadeOnce ==
  [][keystore'.made > keystore.made
       => ~(file.readable /\ file.saved.passwords.typed # 0)]_keystore

\* What the wizard saved is what the program uses.
SavedIsUsed ==
  wizard.state = "saved" /\ wizard.check = "none" /\ file.readable => settings = file.saved

=============================================================================
