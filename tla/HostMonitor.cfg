SPECIFICATION Spec
\* Two builds, so that a shell can be of another build than the host.
CONSTANT LastBuild = 2
INVARIANTS TypeOK ReloadsOnce
PROPERTY ShellServes
