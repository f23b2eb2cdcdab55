---------------------------- MODULE MCInstaller ----------------------------
EXTENDS Installer

MCAll == {"install", "rollback", "uninstall"}
MCInstall == {"install"}
=============================================================================
