---------------------------- MODULE MCDriverCalls ----------------------------
EXTENDS DriverCalls

AllTypes == DOMAIN SupportedFileSystems

\* From before 3.0 to after 4.18, with modules or without, and one which cannot be read
Kernel(version, filesystems, modules) ==
    [version |-> version, filesystems |-> filesystems, modules |-> modules]
AllModules == {"btrfs", "jfs", "nilfs2", "xfs"}
MCKernels == {Kernel(<<6, 1, 0>>, {"xfs", "btrfs"}, AllModules), Kernel(<<4, 18>>, {}, AllModules),
              Kernel(<<4, 17, 19>>, {}, AllModules), Kernel(<<3, 5, 7>>, AllModules, {}),
              Kernel(<<2, 6, 39>>, {}, AllModules), Kernel(<<>>, {}, AllModules),
              Kernel(<<6, 1, 0>>, {}, {})}
=============================================================================
