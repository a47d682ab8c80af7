---- MODULE MCLanguageMenu ----
EXTENDS LanguageMenu
====
